---------------------------- MODULE Spec2Model ----------------------------
(***************************************************************************)
(* Model of the SSN codec (ssn_app/crypto.py), of the encrypted record     *)
(* fields built on it (ssn_app/models.py), and of the data generation and  *)
(* query commands over the tables (ssn_app/management/commands).           *)
(*                                                                         *)
(* Python values                                                           *)
(*   str     a sequence of one-character strings; "" is << >>              *)
(*   bytes   a sequence of byte values (0..255)                            *)
(*   None    the value None below, distinct from every str                 *)
(* A call's outcome is a record [kind, val, prims]: kind is "ok" or the    *)
(* class of the exception that leaves the call, val the returned value,    *)
(* prims the cipher / digest primitives the call invoked, in order.        *)
(*                                                                         *)
(* Cryptography is symbolic: SHA-256 is injective, a Fernet token verifies *)
(* only under the key that made it, and a random IV never repeats.         *)
(***************************************************************************)
EXTENDS Integers, Sequences, FiniteSets, TLC

VARIABLES
    SSN_ENCRYPTION_KEY,   \* settings.SSN_ENCRYPTION_KEY
    SSN_HASH_SALT,        \* settings.SSN_HASH_SALT
    urandom,              \* number of IVs os.urandom has handed out so far
    ssn_ciphertext,       \* PersonEncrypted.ssn_ciphertext
    ssn_hash,             \* PersonEncrypted.ssn_hash
    call,                 \* the call that completed last: [op, arg, res, how]
    prev,                 \* the call before it, when `call` was chained on it
    income_ciphertext,    \* ApplicantEncrypted.income_ciphertext
    db,                   \* the database: its tables and their id sequences
    threads               \* the codec call each thread is in: [pc, op, arg, conf, iv, res]

vars == <<SSN_ENCRYPTION_KEY, SSN_HASH_SALT, urandom, ssn_ciphertext, ssn_hash,
          call, prev, income_ciphertext, db, threads>>

---------------------------------------------------------------------------
(* Bounds of the model *)

\* IVs drawn in one behaviour
MaxIV == 2
\* the inputs carry between SSN_DIGITS - MaxExtra and SSN_DIGITS + MaxExtra digits
MaxExtra == 1
\* identifiers (incomes) pre-generated by one run of a data generation command
MaxCount == 2
\* fractional digits of the incomes assigned
MaxFrac == 3
\* rows ever inserted into one table, and IVs drawn while tables are filled
MaxRows == 2
\* identifiers (incomes) of one run when the generation commands run by themselves
MaxGenerated == 3
\* threads calling the codec functions at the same time
MaxThreads == 2

---------------------------------------------------------------------------
(* Python values and outcomes *)

None == <<"None">>

IsStr(v) == v # None

R(kind, val, prims) == [kind |-> kind, val |-> val, prims |-> prims]
Ok(val, prims) == R("ok", val, prims)
Raise(exc, prims) == R(exc, << >>, prims)

\* Python truthiness of an optional str: None and "" are falsy
Truthy(v) == v # None /\ v # << >>

---------------------------------------------------------------------------
(* Characters and UTF-8 *)

AsciiDigits == {"0", "1", "2", "3", "4", "5", "6", "7", "8", "9"}

\* U+0663 ARABIC-INDIC DIGIT THREE: a digit for str.isdigit and \d, not for [0-9]
ArabicThree == "U+0663"

\* the UTF-8 encoding of each character the model uses
Utf8Of(c) ==
    CASE c = "0" -> <<48>> [] c = "1" -> <<49>> [] c = "2" -> <<50>>
      [] c = "3" -> <<51>> [] c = "4" -> <<52>> [] c = "5" -> <<53>>
      [] c = "6" -> <<54>> [] c = "7" -> <<55>> [] c = "8" -> <<56>>
      [] c = "9" -> <<57>> [] c = "-" -> <<45>> [] c = " " -> <<32>>
      [] c = "*" -> <<42>> [] c = "a" -> <<97>> [] c = "s" -> <<115>>
      [] c = "N" -> <<78>> [] c = "o" -> <<111>> [] c = "n" -> <<110>>
      [] c = "e" -> <<101>> [] c = "." -> <<46>>
      [] c = "E" -> <<69>> [] c = "+" -> <<43>>
      [] c = ArabicThree -> <<217, 163>>
      \* None interpolated into an f-string reads "None"
      [] c = "None" -> <<78, 111, 110, 101>>

Chars ==
    AsciiDigits \cup {"-", " ", ".", "*", "a", "s", "N", "o", "n", "e", "E", "+",
                      ArabicThree}

RECURSIVE Utf8Encode(_)
\* str.encode("utf-8")
Utf8Encode(s) == IF s = << >> THEN << >> ELSE Utf8Of(Head(s)) \o Utf8Encode(Tail(s))

RECURSIVE Utf8Decode(_)
\* bytes.decode("utf-8"): the str, or "UnicodeDecodeError"
Utf8Decode(b) ==
    IF b = << >> THEN Ok(<< >>, << >>)
    ELSE LET one == {c \in Chars : Utf8Of(c) = <<Head(b)>>}
             two == IF Len(b) >= 2
                    THEN {c \in Chars : Utf8Of(c) = <<b[1], b[2]>>} ELSE {}
         IN  IF one # {}
             THEN LET rest == Utf8Decode(Tail(b))
                  IN  IF rest.kind # "ok" THEN rest
                      ELSE Ok(<<CHOOSE c \in one : TRUE>> \o rest.val, << >>)
             ELSE IF two # {}
             THEN LET rest == Utf8Decode(Tail(Tail(b)))
                  IN  IF rest.kind # "ok" THEN rest
                      ELSE Ok(<<CHOOSE c \in two : TRUE>> \o rest.val, << >>)
             ELSE Raise("UnicodeDecodeError", << >>)

---------------------------------------------------------------------------
(* The library primitives the codec calls (cryptography.fernet, hashlib) *)

\* a Fernet key is 32 url-safe base64-encoded bytes; the model writes such a
\* key as one symbol
FernetKeys == {<<"K1">>, <<"K2">>}

\* Fernet(key): the constructor rejects a key that does not decode to 32 bytes
Fernet(key) ==
    IF key \in FernetKeys THEN Ok(key, <<"Fernet">>)
    ELSE Raise("ValueError", <<"Fernet">>)

AesCbc(k, iv, data) == <<"aes-cbc", k, iv, data>>
HmacSha256(k, ver, iv, ct) == <<"hmac-sha256", k, ver, iv, ct>>

\* Fernet.encrypt(data) with the IV it drew: version || iv || ciphertext || hmac
\* (the timestamp is authenticated like the IV and never read back: ttl is None)
FernetEncrypt(f, iv, data) ==
    LET ct == AesCbc(f, iv, data)
    IN  <<"0x80", iv, ct, HmacSha256(f, "0x80", iv, ct)>>

\* Fernet.decrypt(token): the data, or InvalidToken
FernetDecrypt(f, token) ==
    IF Len(token) # 4 THEN Raise("InvalidToken", <<"Fernet.decrypt">>)
    ELSE IF token[1] # "0x80" THEN Raise("InvalidToken", <<"Fernet.decrypt">>)
    ELSE IF token[4] # HmacSha256(f, token[1], token[2], token[3])
         THEN Raise("InvalidToken", <<"Fernet.decrypt">>)
    ELSE IF token[3][2] = f /\ token[3][3] = token[2]
         THEN Ok(token[3][4], <<"Fernet.decrypt">>)
    ELSE Raise("InvalidToken", <<"Fernet.decrypt">>)

\* hashlib.sha256(data).hexdigest(): a non-empty str, one per preimage
Sha256Hex(data) == <<"sha256", data>>

---------------------------------------------------------------------------
(* ssn_app/crypto.py *)

\* SSN_PATTERN written as r"\D": a Unicode digit is no match
SSN_PATTERN_NonDigit(c) == c \notin {"0", "1", "2", "3", "4", "5", "6", "7", "8", "9", ArabicThree}

\* SSN_PATTERN = re.compile(r"[^0-9]"): the characters the pattern matches
SSN_PATTERN(c) == c \notin {"0", "1", "2", "3", "4", "5", "6", "7", "8", "9"}

RECURSIVE PatternSub(_)
\* SSN_PATTERN.sub("", s): every match replaced by the empty string
PatternSub(s) ==
    IF s = << >> THEN << >>
    ELSE IF SSN_PATTERN(Head(s)) THEN PatternSub(Tail(s))
    ELSE <<Head(s)>> \o PatternSub(Tail(s))

SSN_DIGITS == 9
MASK_SHOWN == 4

\* what the Fernet constructor raises handed on as it is
_get_fernet_Unwrapped(key) ==
    IF ~Truthy(key) THEN Raise("SSNConfigurationError", << >>)
    ELSE Fernet(key)

_get_fernet(key) ==
    IF ~Truthy(key) THEN Raise("SSNConfigurationError", << >>)
    ELSE LET f == Fernet(key)
         IN  IF f.kind = "ok" THEN f
             ELSE Raise("SSNConfigurationError", f.prims)

\* the salt handed on without the check
_get_hash_salt_Unchecked(salt) == Ok(salt, << >>)

_get_hash_salt(salt) ==
    IF ~Truthy(salt) THEN Raise("SSNConfigurationError", << >>)
    ELSE Ok(salt, << >>)

\* the digits grouped 3-2-4 with dashes, as format_ssn returns them
normalize_ssn_Formatted(ssn) ==
    IF ~IsStr(ssn) THEN Raise("TypeError", << >>)
    ELSE LET normalized == PatternSub(ssn)
         IN  IF Len(normalized) # SSN_DIGITS THEN Raise("ValueError", << >>)
             ELSE Ok(SubSeq(normalized, 1, 3) \o <<"-">> \o SubSeq(normalized, 4, 5)
                     \o <<"-">> \o SubSeq(normalized, 6, Len(normalized)), << >>)

normalize_ssn(ssn) ==
    IF ~IsStr(ssn) THEN Raise("TypeError", << >>)
    ELSE LET normalized == PatternSub(ssn)
         IN  IF Len(normalized) # SSN_DIGITS THEN Raise("ValueError", << >>)
             ELSE Ok(normalized, << >>)

\* the argument encrypted as given, the normalized value only checked
encrypt_ssn_Raw(ssn, key, iv) ==
    LET normalized == normalize_ssn(ssn)
    IN  IF normalized.kind # "ok"
        THEN Raise("SSNEncryptionError", << >>)
        ELSE LET fernet == _get_fernet(key)
             IN  IF fernet.kind # "ok" THEN fernet
                 ELSE Ok(FernetEncrypt(fernet.val, iv, Utf8Encode(ssn)),
                         fernet.prims \o <<"Fernet.encrypt">>)

\* every token made with one fixed IV
encrypt_ssn_FixedIV(ssn, key, iv) ==
    LET normalized == normalize_ssn(ssn)
    IN  IF normalized.kind # "ok"
        THEN Raise("SSNEncryptionError", << >>)
        ELSE LET fernet == _get_fernet(key)
             IN  IF fernet.kind # "ok" THEN fernet
                 ELSE Ok(FernetEncrypt(fernet.val, 0, Utf8Encode(normalized.val)),
                         fernet.prims \o <<"Fernet.encrypt">>)

\* iv: the IV fernet.encrypt draws from os.urandom when it is reached
encrypt_ssn(ssn, key, iv) ==
    LET normalized == normalize_ssn(ssn)
    IN  IF normalized.kind # "ok"
        THEN Raise("SSNEncryptionError", << >>)
        ELSE LET fernet == _get_fernet(key)
             IN  IF fernet.kind # "ok" THEN fernet
                 ELSE Ok(FernetEncrypt(fernet.val, iv, Utf8Encode(normalized.val)),
                         fernet.prims \o <<"Fernet.encrypt">>)

\* a token that does not verify answered with the empty str
decrypt_ssn_Lenient(ciphertext, key) ==
    LET fernet == _get_fernet(key)
    IN  IF fernet.kind # "ok" THEN fernet
        ELSE IF ~IsStr(ciphertext)
        THEN Raise("SSNDecryptionError", fernet.prims)
        ELSE LET plaintext == FernetDecrypt(fernet.val, ciphertext)
                 prims == fernet.prims \o plaintext.prims
             IN  IF plaintext.kind # "ok" THEN Ok(<< >>, prims)
                 ELSE LET text == Utf8Decode(plaintext.val)
                      IN  IF text.kind # "ok" THEN Raise("SSNDecryptionError", prims)
                          ELSE Ok(text.val, prims)

decrypt_ssn(ciphertext, key) ==
    LET fernet == _get_fernet(key)
    IN  IF fernet.kind # "ok" THEN fernet
        ELSE IF ~IsStr(ciphertext)
        THEN Raise("SSNDecryptionError", fernet.prims)
        ELSE LET plaintext == FernetDecrypt(fernet.val, ciphertext)
                 prims == fernet.prims \o plaintext.prims
             IN  IF plaintext.kind # "ok" THEN Raise("SSNDecryptionError", prims)
                 ELSE LET text == Utf8Decode(plaintext.val)
                      IN  IF text.kind # "ok" THEN Raise("SSNDecryptionError", prims)
                          ELSE Ok(text.val, prims)

\* the argument hashed as given, the normalized value only checked
hash_ssn_Raw(ssn, salt) ==
    LET normalized == normalize_ssn(ssn)
    IN  IF normalized.kind # "ok" THEN normalized
        ELSE LET s == _get_hash_salt(salt)
             IN  IF s.kind # "ok" THEN s
                 ELSE LET salted_value == s.val \o ssn
                      IN  Ok(Sha256Hex(Utf8Encode(salted_value)), <<"sha256">>)

hash_ssn(ssn, salt) ==
    LET normalized == normalize_ssn(ssn)
    IN  IF normalized.kind # "ok" THEN normalized
        ELSE LET s == _get_hash_salt(salt)
             IN  IF s.kind # "ok" THEN s
                 ELSE LET salted_value == s.val \o normalized.val
                      IN  Ok(Sha256Hex(Utf8Encode(salted_value)), <<"sha256">>)

Redacted == <<"*", "*", "*", "-", "*", "*", "-", "*", "*", "*", "*">>

\* mask_ssn showing the last four characters of its argument as given
mask_ssn_Raw(ssn) ==
    LET normalized == normalize_ssn(ssn)
    IN  IF normalized.kind = "ok"
        THEN Ok(<<"*", "*", "*", "-", "*", "*", "-">>
                \o SubSeq(ssn, Len(ssn) - MASK_SHOWN + 1, Len(ssn)), << >>)
        ELSE IF normalized.kind = "ValueError" THEN Ok(Redacted, << >>)
        ELSE normalized

mask_ssn(ssn) ==
    LET normalized == normalize_ssn(ssn)
    IN  IF normalized.kind = "ok"
        THEN Ok(<<"*", "*", "*", "-", "*", "*", "-">>
                \o SubSeq(normalized.val, Len(normalized.val) - MASK_SHOWN + 1,
                          Len(normalized.val)), << >>)
        ELSE IF normalized.kind = "ValueError" THEN Ok(Redacted, << >>)
        ELSE normalized

---------------------------------------------------------------------------
(* ssn_app/models.py: PersonEncrypted.ssn *)

\* self: [ssn_ciphertext, ssn_hash]; the result carries the record as the
\* setter leaves it, also when an exception leaves the setter
ssn_setter(self, value, key, salt, iv) ==
    IF value = None
    THEN [self |-> [ssn_ciphertext |-> << >>, ssn_hash |-> << >>],
          res |-> Ok(None, << >>)]
    ELSE LET e == encrypt_ssn(value, key, iv)
         IN  IF e.kind # "ok" THEN [self |-> self, res |-> e]
             ELSE LET h == hash_ssn(value, salt)
                      assigned == [self EXCEPT !.ssn_ciphertext = e.val]
                  IN  IF h.kind # "ok"
                      THEN [self |-> assigned,
                            res |-> Raise(h.kind, e.prims \o h.prims)]
                      ELSE [self |-> [assigned EXCEPT !.ssn_hash = h.val],
                            res |-> Ok(None, e.prims \o h.prims)]

ssn_getter(self, key) ==
    IF ~Truthy(self.ssn_ciphertext) THEN Ok(None, << >>)
    ELSE decrypt_ssn(self.ssn_ciphertext, key)

\* ssn_masked letting what self.ssn and mask_ssn raise leave it
ssn_masked_Propagating(self, key) ==
    IF ~Truthy(self.ssn_ciphertext) THEN Ok(Redacted, << >>)
    ELSE LET ssn == ssn_getter(self, key)
             masked == mask_ssn(ssn.val)
         IN  IF ssn.kind # "ok" THEN ssn
             ELSE R(masked.kind, masked.val, ssn.prims \o masked.prims)

\* PersonEncrypted.ssn_masked: except Exception answers whatever self.ssn or
\* mask_ssn raises with the redacted placeholder
ssn_masked(self, key) ==
    IF ~Truthy(self.ssn_ciphertext) THEN Ok(Redacted, << >>)
    ELSE LET ssn == ssn_getter(self, key)
             masked == mask_ssn(ssn.val)
         IN  IF ssn.kind # "ok" THEN Ok(Redacted, ssn.prims)
             ELSE IF masked.kind # "ok" THEN Ok(Redacted, ssn.prims \o masked.prims)
             ELSE Ok(masked.val, ssn.prims \o masked.prims)

---------------------------------------------------------------------------
(* decimal.Decimal, as ssn_app/models.py uses it *)

\* A Decimal is <<"Decimal", sign, int, exp>>: sign 0 or 1, int the
\* coefficient as a str of digits, exp the exponent; its value is
\* (-1)^sign * int * 10^exp.  Two Decimals of equal value may differ in exp.
Decimal(sign, int, exp) == <<"Decimal", sign, int, exp>>

IsDecimal(v) == Len(v) = 4 /\ v[1] = "Decimal"

\* the default context's precision: significant digits a result may have
PREC == 28

Counting == <<"1", "2", "3", "4", "5", "6", "7", "8", "9", "0">>

DigitChar(k) == Counting[((k + 9) % 10) + 1]
DigitValue(c) == CHOOSE k \in 0..9 : DigitChar(k) = c

Zeros(n) == [i \in 1..n |-> "0"]

RECURSIVE IntStr(_)
\* str(n) of an int n >= 0
IntStr(n) == IF n < 10 THEN <<DigitChar(n)>> ELSE IntStr(n \div 10) \o <<DigitChar(n % 10)>>

RECURSIVE StrInt(_)
\* int(s) of a str of digits
StrInt(s) ==
    IF s = << >> THEN 0
    ELSE 10 * StrInt(SubSeq(s, 1, Len(s) - 1)) + DigitValue(s[Len(s)])

AllDigits(s) == \A i \in 1..Len(s) : s[i] \in AsciiDigits

RECURSIVE StripZeros(_)
\* str(int(s)) of a str of digits: no leading zeros, "0" for zero
StripZeros(s) ==
    IF Len(s) > 1 /\ Head(s) = "0" THEN StripZeros(Tail(s))
    ELSE IF s = << >> THEN <<"0">> ELSE s

RECURSIVE Increment(_)
\* str(int(s) + 1) of a str of digits
Increment(s) ==
    IF s = << >> THEN <<"1">>
    ELSE IF s[Len(s)] = "9" THEN Increment(SubSeq(s, 1, Len(s) - 1)) \o <<"0">>
    ELSE SubSeq(s, 1, Len(s) - 1) \o <<DigitChar(DigitValue(s[Len(s)]) + 1)>>

\* "%+d" % n
SignedStr(n) == IF n < 0 THEN <<"-">> \o IntStr(-n) ELSE <<"+">> \o IntStr(n)

\* Decimal.__str__: plain notation when exp <= 0 and the value is not below
\* 1E-6 in size, scientific notation otherwise
DecimalStr(d) ==
    LET int == d[3]
        leftdigits == d[4] + Len(int)
        dotplace == IF d[4] <= 0 /\ leftdigits > -6 THEN leftdigits ELSE 1
        intpart == IF dotplace <= 0 THEN <<"0">>
                   ELSE IF dotplace >= Len(int) THEN int \o Zeros(dotplace - Len(int))
                   ELSE SubSeq(int, 1, dotplace)
        fracpart == IF dotplace <= 0 THEN <<".">> \o Zeros(-dotplace) \o int
                    ELSE IF dotplace >= Len(int) THEN << >>
                    ELSE <<".">> \o SubSeq(int, dotplace + 1, Len(int))
        exp == IF leftdigits = dotplace THEN << >>
               ELSE <<"E">> \o SignedStr(leftdigits - dotplace)
    IN  (IF d[2] = 1 THEN <<"-">> ELSE << >>) \o intpart \o fracpart \o exp

\* the first place of c in s, 0 when it has none
IndexOf(s, c) ==
    IF \E i \in 1..Len(s) : s[i] = c
    THEN CHOOSE i \in 1..Len(s) : s[i] = c /\ \A j \in 1..(i - 1) : s[j] # c
    ELSE 0

\* Decimal(text): [sign] digits [. digits] [E [sign] digits], or
\* InvalidOperation (the special values Infinity and NaN are not modelled)
ParseDecimal(text) ==
    LET signed == text # << >> /\ text[1] \in {"-", "+"}
        sign == IF signed /\ text[1] = "-" THEN 1 ELSE 0
        body == IF signed THEN Tail(text) ELSE text
        e == IndexOf(body, "E")
        mantissa == IF e = 0 THEN body ELSE SubSeq(body, 1, e - 1)
        exppart == IF e = 0 THEN << >> ELSE SubSeq(body, e + 1, Len(body))
        expsigned == exppart # << >> /\ exppart[1] \in {"-", "+"}
        expdigits == IF expsigned THEN Tail(exppart) ELSE exppart
        dot == IndexOf(mantissa, ".")
        intpart == IF dot = 0 THEN mantissa ELSE SubSeq(mantissa, 1, dot - 1)
        fracpart == IF dot = 0 THEN << >> ELSE SubSeq(mantissa, dot + 1, Len(mantissa))
        wellformed == /\ AllDigits(intpart) /\ AllDigits(fracpart)
                      /\ intpart \o fracpart # << >>
                      /\ e # 0 => (expdigits # << >> /\ AllDigits(expdigits))
    IN  IF ~IsStr(text) THEN Raise("TypeError", << >>)
        ELSE IF ~wellformed THEN Raise("InvalidOperation", << >>)
        ELSE Ok(Decimal(sign, StripZeros(intpart \o fracpart),
                        (IF e = 0 THEN 0
                         ELSE IF expsigned /\ exppart[1] = "-" THEN -StrInt(expdigits)
                         ELSE StrInt(expdigits)) - Len(fracpart)), << >>)

\* the fractional digits of Decimal("0.01")
DECIMAL_PLACES == 2

\* Decimal.quantize(Decimal("0.01")) under the default context: the value
\* rounded half-even to exponent -DECIMAL_PLACES, or InvalidOperation when
\* the result would need more than PREC digits
quantize(d) ==
    LET int == d[3]
        exp == -DECIMAL_PLACES
        digits == Len(int) + d[4] - exp
        kept == IF digits < 0 THEN 0 ELSE digits
        from == IF digits < 0 THEN <<"1">> ELSE int
        dropped == SubSeq(from, kept + 1, Len(from))
        exact_half == Head(dropped) = "5" /\ Tail(dropped) = Zeros(Len(dropped) - 1)
        changed == IF exact_half
                   THEN kept # 0 /\ from[kept] \notin {"0", "2", "4", "6", "8"}
                   ELSE Head(dropped) \in {"5", "6", "7", "8", "9"}
        coeff == IF kept = 0 THEN <<"0">> ELSE SubSeq(from, 1, kept)
        rescaled == IF int = <<"0">> THEN <<"0">>
                    ELSE IF d[4] >= exp THEN int \o Zeros(d[4] - exp)
                    ELSE IF changed THEN Increment(coeff) ELSE coeff
    IN  IF int # <<"0">> /\ digits > PREC THEN Raise("InvalidOperation", << >>)
        ELSE IF Len(rescaled) > PREC THEN Raise("InvalidOperation", << >>)
        ELSE Ok(Decimal(d[2], rescaled, exp), << >>)

Min(a, b) == IF a <= b THEN a ELSE b

RECURSIVE Pow10(_)
Pow10(n) == IF n = 0 THEN 1 ELSE 10 * Pow10(n - 1)

\* the value of d in units of 10^e, for e <= the exponent of d
Units(d, e) == (IF d[2] = 1 THEN -1 ELSE 1) * StrInt(d[3]) * Pow10(d[4] - e)

\* a < b and a == b of two Decimals
DecimalLess(a, b) == Units(a, Min(a[4], b[4])) < Units(b, Min(a[4], b[4]))
DecimalEqual(a, b) == Units(a, Min(a[4], b[4])) = Units(b, Min(a[4], b[4]))

\* str(value) of a Decimal or a str
PyStr(value) == IF IsDecimal(value) THEN DecimalStr(value) ELSE value

---------------------------------------------------------------------------
(* ssn_app/models.py: ApplicantEncrypted.income *)

\* the setter storing str(Decimal(str(value))) as it is
income_setter_Unquantized(self, value, key, iv) ==
    IF value = None THEN [self |-> << >>, res |-> Ok(None, << >>)]
    ELSE LET fernet == _get_fernet(key)
             parsed == ParseDecimal(PyStr(value))
         IN  IF fernet.kind # "ok" THEN [self |-> self, res |-> fernet]
             ELSE IF parsed.kind # "ok"
             THEN [self |-> self, res |-> Raise(parsed.kind, fernet.prims)]
             ELSE [self |-> FernetEncrypt(fernet.val, iv,
                                          Utf8Encode(DecimalStr(parsed.val))),
                   res |-> Ok(None, fernet.prims \o <<"Fernet.encrypt">>)]

\* the setter reading the key before it looks at the value
income_setter_KeyFirst(self, value, key, iv) ==
    LET fernet == _get_fernet(key)
        parsed == ParseDecimal(PyStr(value))
        quantized == quantize(parsed.val)
    IN  IF fernet.kind # "ok" THEN [self |-> self, res |-> fernet]
        ELSE IF value = None THEN [self |-> << >>, res |-> Ok(None, fernet.prims)]
        ELSE IF parsed.kind # "ok"
        THEN [self |-> self, res |-> Raise(parsed.kind, fernet.prims)]
        ELSE IF quantized.kind # "ok"
        THEN [self |-> self, res |-> Raise(quantized.kind, fernet.prims)]
        ELSE [self |-> FernetEncrypt(fernet.val, iv,
                                     Utf8Encode(DecimalStr(quantized.val))),
              res |-> Ok(None, fernet.prims \o <<"Fernet.encrypt">>)]

\* self: income_ciphertext; the result carries it as the setter leaves it
income_setter(self, value, key, iv) ==
    IF value = None THEN [self |-> << >>, res |-> Ok(None, << >>)]
    ELSE LET fernet == _get_fernet(key)
             parsed == ParseDecimal(PyStr(value))
             quantized == quantize(parsed.val)
         IN  IF fernet.kind # "ok" THEN [self |-> self, res |-> fernet]
             ELSE IF parsed.kind # "ok"
             THEN [self |-> self, res |-> Raise(parsed.kind, fernet.prims)]
             ELSE IF quantized.kind # "ok"
             THEN [self |-> self, res |-> Raise(quantized.kind, fernet.prims)]
             ELSE [self |-> FernetEncrypt(fernet.val, iv,
                                          Utf8Encode(DecimalStr(quantized.val))),
                   res |-> Ok(None, fernet.prims \o <<"Fernet.encrypt">>)]

income_getter(self, key) ==
    IF ~Truthy(self) THEN Ok(None, << >>)
    ELSE LET fernet == _get_fernet(key)
             decrypted == FernetDecrypt(fernet.val, self)
             prims == fernet.prims \o decrypted.prims
             text == Utf8Decode(decrypted.val)
             parsed == ParseDecimal(text.val)
         IN  IF fernet.kind # "ok" THEN fernet
             ELSE IF decrypted.kind # "ok" THEN Raise(decrypted.kind, prims)
             ELSE IF text.kind # "ok" THEN Raise(text.kind, prims)
             ELSE IF parsed.kind # "ok" THEN Raise(parsed.kind, prims)
             ELSE Ok(parsed.val, prims)

---------------------------------------------------------------------------
(* The tables: QuerySet operations (django.db.models) *)

\* Model.objects.bulk_create(objs): each object gets the next id of the
\* table's sequence and is appended; objs are the rows without their id
bulk_create(d, table, objs) ==
    [d EXCEPT ![table] = @ \o [i \in 1..Len(objs) |->
                                  <<d.id_seq[table] + i - 1>> \o objs[i]],
              !.id_seq[table] = @ + Len(objs)]

\* Model.objects.all().delete(): the rows go, the id sequence stays
delete_all(d, table) == [d EXCEPT ![table] = << >>]

\* QuerySet.first() of an unordered QuerySet: the row with the least id, or None
first(rows) == IF rows = << >> THEN None ELSE Head(rows)

\* the number of times a primitive occurs in prims
Count(prims, prim) == Cardinality({i \in 1..Len(prims) : prims[i] = prim})

---------------------------------------------------------------------------
(* management/commands/generate_test_data.py *)

RECURSIVE EncryptedPersons(_, _, _, _)
\* the PersonEncrypted objects of one batch: encrypt_ssn, then hash_ssn, per ssn
EncryptedPersons(batch_ssns, key, salt, iv) ==
    IF batch_ssns = << >> THEN Ok(<< >>, << >>)
    ELSE LET c == encrypt_ssn(Head(batch_ssns), key, iv)
         IN  IF c.kind # "ok" THEN c
             ELSE LET h == hash_ssn(Head(batch_ssns), salt)
                  IN  IF h.kind # "ok" THEN Raise(h.kind, c.prims \o h.prims)
                      ELSE LET rest == EncryptedPersons(Tail(batch_ssns), key, salt, iv + 1)
                               prims == c.prims \o h.prims \o rest.prims
                           IN  IF rest.kind # "ok" THEN Raise(rest.kind, prims)
                               ELSE Ok(<< <<c.val, h.val>> >> \o rest.val, prims)

RECURSIVE BaselinePersons(_)
\* the PersonBaseline objects of one batch
BaselinePersons(batch_ssns) ==
    IF batch_ssns = << >> THEN Ok(<< >>, << >>)
    ELSE LET n == normalize_ssn(Head(batch_ssns))
         IN  IF n.kind # "ok" THEN n
             ELSE LET rest == BaselinePersons(Tail(batch_ssns))
                  IN  IF rest.kind # "ok" THEN rest
                      ELSE Ok(<< <<n.val>> >> \o rest.val, << >>)

\* a slice that stops one short of batch_end
Slice_Short(s, start, end) == SubSeq(s, start + 1, end - 1)

\* ssns[batch_start:batch_end]
Slice(s, start, end) == SubSeq(s, start + 1, end)

RECURSIVE _generate_encrypted(_, _, _, _, _, _, _)
\* the batches from batch_start on; returns the database as the call leaves
\* it (the batches created before an exception stay) and the outcome
_generate_encrypted(d, ssns, batch_start, batch_size, key, salt, iv) ==
    IF batch_start >= Len(ssns) THEN [db |-> d, res |-> Ok(None, << >>)]
    ELSE LET batch_end == Min(batch_start + batch_size, Len(ssns))
             persons == EncryptedPersons(Slice(ssns, batch_start, batch_end), key, salt, iv)
         IN  IF persons.kind # "ok" THEN [db |-> d, res |-> persons]
             ELSE LET rest == _generate_encrypted(
                                  bulk_create(d, "person_encrypted", persons.val),
                                  ssns, batch_end, batch_size, key, salt,
                                  iv + Len(persons.val))
                  IN  [db |-> rest.db,
                       res |-> R(rest.res.kind, rest.res.val, persons.prims \o rest.res.prims)]

RECURSIVE _generate_baseline(_, _, _, _)
_generate_baseline(d, ssns, batch_start, batch_size) ==
    IF batch_start >= Len(ssns) THEN [db |-> d, res |-> Ok(None, << >>)]
    ELSE LET batch_end == Min(batch_start + batch_size, Len(ssns))
             persons == BaselinePersons(Slice(ssns, batch_start, batch_end))
         IN  IF persons.kind # "ok" THEN [db |-> d, res |-> persons]
             ELSE _generate_baseline(bulk_create(d, "person_baseline", persons.val),
                                     ssns, batch_end, batch_size)

\* Command._clear_data, without the orders
_clear_data(d) == delete_all(delete_all(d, "person_encrypted"), "person_baseline")

\* Command.handle with the pre-generated ssns; options is [batch_size, clear,
\* encrypted_only, baseline_only]
generate_test_data(d, ssns, options, key, salt, iv) ==
    LET Baseline(encrypted) ==
            LET Done(baseline) ==
                    [db |-> baseline.db,
                     res |-> R(baseline.res.kind, baseline.res.val, encrypted.res.prims)]
            IN  IF encrypted.res.kind # "ok" THEN encrypted
                ELSE IF options.encrypted_only THEN encrypted
                ELSE Done(_generate_baseline(encrypted.db, ssns, 0, options.batch_size))
        Encrypted(cleared) ==
            Baseline(IF ~options.baseline_only
                     THEN _generate_encrypted(cleared, ssns, 0, options.batch_size,
                                              key, salt, iv)
                     ELSE [db |-> cleared, res |-> Ok(None, << >>)])
    IN  Encrypted(IF options.clear THEN _clear_data(d) ELSE d)

---------------------------------------------------------------------------
(* management/commands/benchmark_queries.py: the SSN lookups *)

\* the lookup comparing every row's decrypted identifier instead of its hash
encrypted_ssn_lookup_Decrypting(d, ssn, salt) ==
    LET n == normalize_ssn(ssn)
        Matches(row) == row[2][3][4] = Utf8Encode(n.val)
    IN  IF n.kind # "ok" THEN n
        ELSE Ok(first(SelectSeq(d.person_encrypted, Matches)),
                [i \in 1..Len(d.person_encrypted) |-> "Fernet.decrypt"])

\* the lookup returning the first row whatever its hash
encrypted_ssn_lookup_AnyRow(d, ssn, salt) ==
    LET h == hash_ssn(ssn, salt)
    IN  IF h.kind # "ok" THEN h
        ELSE Ok(first(d.person_encrypted), h.prims)

\* query() of _benchmark_encrypted_ssn_lookup
encrypted_ssn_lookup(d, ssn, salt) ==
    LET h == hash_ssn(ssn, salt)
        Matches(row) == row[3] = h.val
    IN  IF h.kind # "ok" THEN h
        ELSE Ok(first(SelectSeq(d.person_encrypted, Matches)), h.prims)

\* query() of _benchmark_baseline_ssn_lookup
baseline_ssn_lookup(d, ssn) ==
    LET Matches(row) == row[2] = ssn
    IN  Ok(first(SelectSeq(d.person_baseline, Matches)), << >>)

---------------------------------------------------------------------------
(* management/commands/generate_applicant_data.py *)

\* the batch loop: incomes[batch_start:batch_end] for every batch_start
Batches(incomes, batch_size) ==
    LET count == Len(incomes)
        \* range(0, count, batch_size)
        starts == [k \in 1..((count + batch_size - 1) \div batch_size) |->
                      (k - 1) * batch_size]
    IN  [k \in 1..Len(starts) |->
            Slice(incomes, starts[k], Min(starts[k] + batch_size, count))]

RECURSIVE Concat(_)
\* the rows that bulk_create of each list in turn appends to a table
Concat(lists) ==
    IF lists = << >> THEN << >> ELSE Head(lists) \o Concat(Tail(lists))

\* Command._generate_encrypted of generate_applicant_data: every batch is
\* encrypted income by income and then created; the loop leaves at the first
\* income that quantize rejects, with the batches before it in the table
_generate_encrypted_applicants(d, incomes, batch_size, key, iv) ==
    LET fernet == _get_fernet(key)
        batches == Batches(incomes, batch_size)
        quantized == [k \in 1..Len(batches) |->
                         [j \in 1..Len(batches[k]) |-> quantize(batches[k][j])]]
        Rejected(k) == {j \in 1..Len(batches[k]) : quantized[k][j].kind # "ok"}
        failing == {k \in 1..Len(batches) : Rejected(k) # {}}
        done == IF failing = {} THEN Len(batches)
                ELSE (CHOOSE k \in failing : \A m \in failing : k <= m) - 1
        Before(k) == Len(Concat(SubSeq(batches, 1, k - 1)))
        applicants ==
            [k \in 1..done |->
                [j \in 1..Len(batches[k]) |->
                    <<FernetEncrypt(fernet.val, iv + Before(k) + j - 1,
                                    Utf8Encode(DecimalStr(quantized[k][j].val)))>>]]
        stop == IF failing = {} THEN 0
                ELSE CHOOSE j \in Rejected(done + 1) : \A m \in Rejected(done + 1) : j <= m
        encrypted == Before(done + 1) + (IF failing = {} THEN 0 ELSE stop - 1)
        prims == fernet.prims \o [i \in 1..encrypted |-> "Fernet.encrypt"]
    IN  IF fernet.kind # "ok" THEN [db |-> d, res |-> fernet]
        ELSE [db |-> bulk_create(d, "applicant_encrypted", Concat(applicants)),
              res |-> IF failing = {} THEN Ok(None, prims)
                      ELSE Raise(quantized[done + 1][stop].kind, prims)]

\* what the income column, a DecimalField(decimal_places=2), holds for a value
DecimalField(income) == quantize(income).val

\* Command._generate_baseline of generate_applicant_data: batch after batch,
\* every income of the batch becomes a row
_generate_baseline_applicants(d, incomes, batch_size) ==
    LET batches == Batches(incomes, batch_size)
        applicants == [k \in 1..Len(batches) |->
                          [j \in 1..Len(batches[k]) |-> <<DecimalField(batches[k][j])>>]]
    IN  bulk_create(d, "applicant_baseline", Concat(applicants))

\* Command.handle with the pre-generated incomes; _print_stats, the last
\* step, divides by len(incomes)
generate_applicant_data(d, incomes, options, key, iv) ==
    LET Stats(encrypted, baseline) ==
            IF encrypted.res.kind # "ok" THEN encrypted
            ELSE IF incomes = << >>
            THEN [db |-> baseline, res |-> Raise("ZeroDivisionError", encrypted.res.prims)]
            ELSE [db |-> baseline, res |-> Ok(None, encrypted.res.prims)]
        Baseline(encrypted) ==
            Stats(encrypted,
                  IF ~options.encrypted_only
                  THEN _generate_baseline_applicants(encrypted.db, incomes,
                                                     options.batch_size)
                  ELSE encrypted.db)
        Encrypted(cleared) ==
            Baseline(IF ~options.baseline_only
                     THEN _generate_encrypted_applicants(cleared, incomes,
                                                         options.batch_size, key, iv)
                     ELSE [db |-> cleared, res |-> Ok(None, << >>)])
    IN  Encrypted(IF options.clear
                  THEN delete_all(delete_all(d, "applicant_encrypted"), "applicant_baseline")
                  ELSE d)

---------------------------------------------------------------------------
(* management/commands/benchmark_range_queries.py: the top-N queries *)

\* an applicant as the queries return it: <<id, income>>
Income(r) == r[2]

RECURSIVE Decrypted(_, _)
\* the decryption loop over all_records: id and income of each, in order
Decrypted(all_records, fernet) ==
    IF all_records = << >> THEN Ok(<< >>, << >>)
    ELSE LET record == Head(all_records)
             token == FernetDecrypt(fernet, record[2])
             income_str == Utf8Decode(token.val)
             income == ParseDecimal(income_str.val)
             rest == Decrypted(Tail(all_records), fernet)
         IN  IF token.kind # "ok" THEN Raise(token.kind, token.prims)
             ELSE IF income_str.kind # "ok" THEN Raise(income_str.kind, token.prims)
             ELSE IF income.kind # "ok" THEN Raise(income.kind, token.prims)
             ELSE IF rest.kind # "ok" THEN Raise(rest.kind, token.prims \o rest.prims)
             ELSE Ok(<< <<record[1], income.val>> >> \o rest.val,
                     token.prims \o rest.prims)

RECURSIVE InsertDescending(_, _)
\* r put into the descending s, behind every entry that is not less than it
InsertDescending(s, r) ==
    IF s = << >> THEN <<r>>
    ELSE IF DecimalLess(Income(Head(s)), Income(r)) THEN <<r>> \o s
    ELSE <<Head(s)>> \o InsertDescending(Tail(s), r)

RECURSIVE sorted_reverse(_)
\* sorted(s, key=income, reverse=True): stable, equal incomes keep their order
sorted_reverse(s) ==
    IF s = << >> THEN << >>
    ELSE InsertDescending(sorted_reverse(SubSeq(s, 1, Len(s) - 1)), s[Len(s)])

\* r for r in decrypted if r["income"] > threshold
Filtered(decrypted, threshold) ==
    LET Above(r) == DecimalLess(threshold, Income(r))
    IN  SelectSeq(decrypted, Above)

\* what a query of _benchmark_encrypted yields: top_results, records_scanned,
\* records_filtered, records_returned, and the ids of the list decrypted
RangeResult(top_results, all_records, filtered, decrypted) ==
    <<top_results, Len(all_records), Len(filtered), Len(top_results),
      [i \in 1..Len(decrypted) |-> decrypted[i][1]]>>

RECURSIVE DecryptedUntil(_, _, _, _)
\* the loop leaving as soon as top_n incomes above the threshold are found
DecryptedUntil(all_records, fernet, threshold, top_n) ==
    IF all_records = << >> \/ top_n <= 0 THEN Ok(<< >>, << >>)
    ELSE LET one == Decrypted(<<Head(all_records)>>, fernet)
             found == IF Filtered(one.val, threshold) = << >> THEN 0 ELSE 1
             rest == DecryptedUntil(Tail(all_records), fernet, threshold, top_n - found)
         IN  IF one.kind # "ok" THEN one
             ELSE IF rest.kind # "ok" THEN Raise(rest.kind, one.prims \o rest.prims)
             ELSE Ok(one.val \o rest.val, one.prims \o rest.prims)

\* the query decrypting no more records than its result needs
encrypted_top_n_Lazy(d, threshold, top_n, key) ==
    LET fernet == _get_fernet(key)
        all_records == d.applicant_encrypted
        decrypted == DecryptedUntil(all_records, fernet.val, threshold, top_n)
        filtered == Filtered(decrypted.val, threshold)
        sorted_results == sorted_reverse(filtered)
        top_results == SubSeq(sorted_results, 1, Min(top_n, Len(sorted_results)))
    IN  IF fernet.kind # "ok" THEN fernet
        ELSE IF decrypted.kind # "ok"
        THEN Raise(decrypted.kind, fernet.prims \o decrypted.prims)
        ELSE Ok(RangeResult(top_results, all_records, filtered, decrypted.val),
                fernet.prims \o decrypted.prims)

\* the query taking the first top_n of the filtered list as it is
encrypted_top_n_Unsorted(d, threshold, top_n, key) ==
    LET fernet == _get_fernet(key)
        all_records == d.applicant_encrypted
        decrypted == Decrypted(all_records, fernet.val)
        filtered == Filtered(decrypted.val, threshold)
        top_results == SubSeq(filtered, 1, Min(top_n, Len(filtered)))
    IN  IF fernet.kind # "ok" THEN fernet
        ELSE IF decrypted.kind # "ok"
        THEN Raise(decrypted.kind, fernet.prims \o decrypted.prims)
        ELSE Ok(RangeResult(top_results, all_records, filtered, decrypted.val),
                fernet.prims \o decrypted.prims)

\* the query keeping the incomes at the threshold as well
encrypted_top_n_Inclusive(d, threshold, top_n, key) ==
    LET fernet == _get_fernet(key)
        all_records == d.applicant_encrypted
        decrypted == Decrypted(all_records, fernet.val)
        AtLeast(r) == ~DecimalLess(Income(r), threshold)
        filtered == SelectSeq(decrypted.val, AtLeast)
        sorted_results == sorted_reverse(filtered)
        top_results == SubSeq(sorted_results, 1, Min(top_n, Len(sorted_results)))
    IN  IF fernet.kind # "ok" THEN fernet
        ELSE IF decrypted.kind # "ok"
        THEN Raise(decrypted.kind, fernet.prims \o decrypted.prims)
        ELSE Ok(RangeResult(top_results, all_records, filtered, decrypted.val),
                fernet.prims \o decrypted.prims)

\* one iteration of _benchmark_encrypted, the rows fetched in primary-key order
encrypted_top_n(d, threshold, top_n, key) ==
    LET fernet == _get_fernet(key)
        all_records == d.applicant_encrypted
        decrypted == Decrypted(all_records, fernet.val)
        filtered == Filtered(decrypted.val, threshold)
        sorted_results == sorted_reverse(filtered)
        top_results == SubSeq(sorted_results, 1, Min(top_n, Len(sorted_results)))
    IN  IF fernet.kind # "ok" THEN fernet
        ELSE IF decrypted.kind # "ok"
        THEN Raise(decrypted.kind, fernet.prims \o decrypted.prims)
        ELSE Ok(RangeResult(top_results, all_records, filtered, decrypted.val),
                fernet.prims \o decrypted.prims)

\* the orders in which rows can come out of ORDER BY income DESC: every
\* arrangement with no income below a later one (the database is free in how
\* it orders rows of equal income)
Descending(rows) ==
    LET n == Len(rows)
    IN  {[i \in 1..n |-> rows[p[i]]] :
            p \in {q \in [1..n -> 1..n] :
                      /\ \A i, j \in 1..n : i # j => q[i] # q[j]
                      /\ \A i \in 1..(n - 1) :
                             ~DecimalLess(Income(rows[q[i]]), Income(rows[q[i + 1]]))}}

\* one iteration of _benchmark_baseline: the results the database may return for
\* filter(income__gt=threshold).order_by("-income")[:top_n]
baseline_top_n(d, threshold, top_n) ==
    {SubSeq(s, 1, Min(top_n, Len(s))) :
        s \in Descending(Filtered(d.applicant_baseline, threshold))}

---------------------------------------------------------------------------
(* The values the calls are made with *)

\* "1234567890123..." cut to n digits
Leading(n) == [i \in 1..n |-> Counting[((i - 1) % Len(Counting)) + 1]]

\* digit strings of SSN_DIGITS - MaxExtra .. SSN_DIGITS + MaxExtra digits, the
\* last two of them free
DigitRuns ==
    UNION { {Leading(n - Len(t)) \o t : t \in {<<a, b>> : a, b \in {"7", "8"}}} :
            n \in (SSN_DIGITS - MaxExtra)..(SSN_DIGITS + MaxExtra) }

\* d with sep after its third and fifth character: "123-45-6789"
Grouped(d, sep) ==
    SubSeq(d, 1, 3) \o <<sep>> \o SubSeq(d, 4, 5) \o <<sep>> \o SubSeq(d, 6, Len(d))

Spellings(d) ==
    {d, Grouped(d, "-"), Grouped(d, " "), Grouped(d, "."), <<"a">> \o d,
     d \o <<ArabicThree>>}

Strings == UNION {Spellings(d) : d \in DigitRuns} \cup {<< >>, <<"a", "-", "a">>}

\* str arguments and None
Inputs == Strings \cup {None}

\* SSN_ENCRYPTION_KEY: unset, empty, malformed, valid
ConfigKeys == {None, << >>, <<"a">>, <<"K1">>}
\* SSN_HASH_SALT: unset, empty, set
ConfigSalts == {None, << >>, <<"s">>}

\* tokens some deployment issued, for any key
IssuedTokens ==
    {FernetEncrypt(k, iv, Utf8Encode(d)) :
        k \in FernetKeys, iv \in 1..MaxIV,
        d \in {r \in DigitRuns : Len(r) = SSN_DIGITS}}

GarbageToken ==
    <<"0x81", 0, AesCbc(<<"?">>, 0, << >>),
      HmacSha256(<<"?">>, "0x81", 0, AesCbc(<<"?">>, 0, << >>))>>

---------------------------------------------------------------------------
(* The state machine *)

NoCall == [op |-> "none", arg |-> << >>, res |-> Ok(<< >>, << >>), how |-> "none"]

Called(op, arg, res, how) == [op |-> op, arg |-> arg, res |-> res, how |-> how]

\* the tables by db_table name, each a sequence of rows in primary-key order
\* (a row is <<id>> followed by its columns), and the next value of each
\* table's id sequence
EmptyDb ==
    [person_encrypted |-> << >>, person_baseline |-> << >>,
     applicant_encrypted |-> << >>, applicant_baseline |-> << >>,
     id_seq |-> [person_encrypted |-> 1, person_baseline |-> 1,
                 applicant_encrypted |-> 1, applicant_baseline |-> 1]]

\* settings loaded, a new PersonEncrypted and a new ApplicantEncrypted (their
\* columns hold the field default ""), the tables as the migrations leave them
Init ==
    /\ SSN_ENCRYPTION_KEY \in ConfigKeys
    /\ SSN_HASH_SALT \in ConfigSalts
    /\ urandom = 0
    /\ ssn_ciphertext = << >>
    /\ ssn_hash = << >>
    /\ call = NoCall
    /\ prev = NoCall
    /\ income_ciphertext = << >>
    /\ db = EmptyDb
    /\ threads = [t \in 1..MaxThreads |->
                     [pc |-> "idle", op |-> "none", arg |-> << >>, conf |-> None,
                      iv |-> 0, res |-> Ok(<< >>, << >>)]]

Drew(res) == \E i \in 1..Len(res.prims) : res.prims[i] = "Fernet.encrypt"

Config == <<SSN_ENCRYPTION_KEY, SSN_HASH_SALT>>
Record == <<ssn_ciphertext, ssn_hash>>
\* what the PersonEncrypted accessors and the codec functions never touch
Elsewhere == <<income_ciphertext, db, threads>>

Self == [ssn_ciphertext |-> ssn_ciphertext, ssn_hash |-> ssn_hash]

\* person.ssn = value
SetSsn(value) ==
    \E out \in {ssn_setter(Self, value, SSN_ENCRYPTION_KEY, SSN_HASH_SALT, urandom + 1)} :
        /\ Drew(out.res) => urandom < MaxIV
        /\ ssn_ciphertext' = out.self.ssn_ciphertext
        /\ ssn_hash' = out.self.ssn_hash
        /\ urandom' = IF Drew(out.res) THEN urandom + 1 ELSE urandom
        /\ call' = Called("ssn.setter", value, out.res, "direct")
        /\ prev' = NoCall
        /\ UNCHANGED <<Config, Elsewhere>>

\* a read that installs a key when the configuration fails it
GetSsn_Rekeying ==
    \E res \in {ssn_getter(Self, SSN_ENCRYPTION_KEY)} :
        /\ call' = Called("ssn.getter", << >>, res, "direct")
        /\ prev' = NoCall
        /\ SSN_ENCRYPTION_KEY' = IF res.kind = "SSNConfigurationError"
                                 THEN <<"K1">> ELSE SSN_ENCRYPTION_KEY
        /\ UNCHANGED <<SSN_HASH_SALT, Record, urandom, Elsewhere>>

\* person.ssn
GetSsn ==
    /\ call' = Called("ssn.getter", << >>, ssn_getter(Self, SSN_ENCRYPTION_KEY), "direct")
    /\ prev' = NoCall
    /\ UNCHANGED <<Config, Record, urandom, Elsewhere>>

Next ==
    \/ \E value \in Inputs : SetSsn(value)
    \/ GetSsn

Spec == Init /\ [][Next]_vars

\* person.ssn_masked, as the admin's ssn_masked column shows it
GetSsnMasked ==
    /\ call' = Called("ssn_masked", << >>, ssn_masked(Self, SSN_ENCRYPTION_KEY), "direct")
    /\ prev' = NoCall
    /\ UNCHANGED <<Config, Record, urandom, Elsewhere>>

\* a person loaded from a row whose ssn_ciphertext column holds c
StoredSsn(c, how) ==
    /\ ssn_ciphertext' = c
    /\ call' = Called("ssn_ciphertext", c, Ok(None, << >>), how)
    /\ prev' = NoCall
    /\ UNCHANGED <<Config, ssn_hash, urandom, Elsewhere>>

\* the token of a deployment, under whatever key it had
StoreIssued(token) ==
    StoredSsn(token, IF token[3][2] = SSN_ENCRYPTION_KEY THEN "issued" ELSE "wrong_key")

\* a token with one part replaced by that part of another
StoreSsnTampered(token, part) ==
    /\ token[part] # GarbageToken[part]
    /\ StoredSsn([token EXCEPT ![part] = GarbageToken[part]], "tampered")

\* a proper, non-empty prefix of a token
StoreSsnTruncated(token, k) ==
    StoredSsn(SubSeq(token, 1, k), "truncated")

\* the values assigned to person.ssn here: None, "", an identifier plain and
\* formatted, and a str that is none
AssignedSsns ==
    {None, << >>, Leading(SSN_DIGITS), Grouped(Leading(SSN_DIGITS), "-"),
     Leading(SSN_DIGITS - 1)}

NextPerson ==
    \/ \E value \in AssignedSsns : SetSsn(value)
    \/ GetSsn
    \/ GetSsnMasked
    \/ \E token \in IssuedTokens : StoreIssued(token)
    \/ \E token \in IssuedTokens, part \in 1..4 : StoreSsnTampered(token, part)
    \/ \E token \in IssuedTokens, k \in 1..3 : StoreSsnTruncated(token, k)

SpecPerson == Init /\ [][NextPerson]_vars

---------------------------------------------------------------------------
(* Calls of the codec functions *)

\* a first call, made with a value of the pool
Direct(op, arg, res) ==
    /\ call' = Called(op, arg, res, "direct")
    /\ prev' = NoCall
    /\ UNCHANGED <<Config, Record, urandom, Elsewhere>>

\* a call whose argument comes from the call before it
Chained(op, arg, res, how) ==
    /\ call' = Called(op, arg, res, how)
    /\ prev' = call
    /\ UNCHANGED <<Config, Record, urandom, Elsewhere>>

Idle == call = NoCall

CallNormalize(s) ==
    /\ Idle
    /\ Direct("normalize_ssn", s, normalize_ssn(s))

\* normalize_ssn(normalize_ssn(s))
NormalizeAgain ==
    /\ call.op = "normalize_ssn" /\ call.how = "direct" /\ call.res.kind = "ok"
    /\ Chained("normalize_ssn", call.res.val, normalize_ssn(call.res.val), "again")

Encrypted(s, how, before) ==
    \E res \in {encrypt_ssn(s, SSN_ENCRYPTION_KEY, urandom + 1)} :
        /\ Drew(res) => urandom < MaxIV
        /\ urandom' = IF Drew(res) THEN urandom + 1 ELSE urandom
        /\ call' = Called("encrypt_ssn", s, res, how)
        /\ prev' = before
        /\ UNCHANGED <<Config, Record, Elsewhere>>

CallEncrypt(s) ==
    /\ Idle
    /\ Encrypted(s, "direct", NoCall)

\* a second encrypt_ssn after a successful one
EncryptAgain(s) ==
    /\ call.op = "encrypt_ssn" /\ call.how = "direct" /\ call.res.kind = "ok"
    /\ Encrypted(s, "again", call)

CallHash(s) ==
    /\ Idle
    /\ Direct("hash_ssn", s, hash_ssn(s, SSN_HASH_SALT))

\* hash_ssn called a second time with the same argument
HashAgain ==
    /\ call.op = "hash_ssn" /\ call.how = "direct"
    /\ Chained("hash_ssn", call.arg, hash_ssn(call.arg, SSN_HASH_SALT), "again")

CallMask(s) ==
    /\ Idle
    /\ Direct("mask_ssn", s, mask_ssn(s))

\* decrypt_ssn of a stored value: a token some deployment issued, "" or None
CallDecrypt(c) ==
    /\ Idle
    /\ Direct("decrypt_ssn", c, decrypt_ssn(c, SSN_ENCRYPTION_KEY))

Produced == call.op = "encrypt_ssn" /\ call.how = "direct" /\ call.res.kind = "ok"

\* decrypt_ssn(encrypt_ssn(s))
DecryptProduced ==
    /\ Produced
    /\ Chained("decrypt_ssn", call.res.val,
               decrypt_ssn(call.res.val, SSN_ENCRYPTION_KEY), "produced")

\* decrypt_ssn of the produced token with one of its four parts replaced by
\* that part of another token
DecryptTampered(part, donor) ==
    /\ Produced
    /\ donor[part] # call.res.val[part]
    /\ \E c \in {[call.res.val EXCEPT ![part] = donor[part]]} :
           Chained("decrypt_ssn", c, decrypt_ssn(c, SSN_ENCRYPTION_KEY), "tampered")

\* decrypt_ssn of a proper prefix of the produced token
DecryptTruncated(k) ==
    /\ Produced
    /\ \E c \in {SubSeq(call.res.val, 1, k)} :
           Chained("decrypt_ssn", c, decrypt_ssn(c, SSN_ENCRYPTION_KEY), "truncated")

\* decrypt_ssn of the token another key gives for the same identifier
DecryptWrongKey(k) ==
    /\ Produced
    /\ k # SSN_ENCRYPTION_KEY
    /\ \E c \in {encrypt_ssn(call.arg, k, call.res.val[2]).val} :
           Chained("decrypt_ssn", c, decrypt_ssn(c, SSN_ENCRYPTION_KEY), "wrong_key")

NextCodec ==
    \/ \E s \in Inputs : CallNormalize(s)
    \/ NormalizeAgain
    \/ \E s \in Inputs : CallEncrypt(s)
    \/ \E s \in Inputs : EncryptAgain(s)
    \/ \E s \in Inputs : CallHash(s)
    \/ HashAgain
    \/ \E s \in Inputs : CallMask(s)
    \/ \E c \in IssuedTokens \cup {<< >>, None} : CallDecrypt(c)
    \/ DecryptProduced
    \/ \E part \in 1..4, donor \in IssuedTokens \cup {GarbageToken} :
           DecryptTampered(part, donor)
    \/ \E k \in 0..3 : DecryptTruncated(k)
    \/ \E k \in FernetKeys : DecryptWrongKey(k)

SpecCodec == Init /\ [][NextCodec]_vars

---------------------------------------------------------------------------
(* Data generation and the SSN lookups *)

\* what _generate_ssn returns: nine digits (two of them here)
GeneratedSsns == {d \in DigitRuns : Len(d) = SSN_DIGITS /\ d[SSN_DIGITS - 1] = "7"}

RECURSIVE Lists(_, _)
\* the sequences of at most n members of S
Lists(S, n) ==
    IF n = 0 THEN {<< >>}
    ELSE Lists(S, n - 1) \cup {Append(l, x) : l \in {m \in Lists(S, n - 1) : Len(m) = n - 1}, x \in S}

\* --batch-size, --clear, --encrypted-only, --baseline-only
Options ==
    [batch_size : 1..MaxCount, clear : BOOLEAN,
     encrypted_only : BOOLEAN, baseline_only : BOOLEAN]

\* the values looked up: identifiers as stored, formatted, and malformed ones
Queries ==
    GeneratedSsns \cup {Grouped(d, "-") : d \in GeneratedSsns}
        \cup {<< >>, Leading(SSN_DIGITS - 1)}

\* python manage.py generate_test_data --count Len(ssns) ..., run before the
\* lookups are
GenerateTestData(ssns, options) ==
    /\ call.op \in {"none", "generate_test_data"}
    /\ urandom + Len(ssns) <= MaxRows
    /\ \A t \in {"person_encrypted", "person_baseline"} :
           db.id_seq[t] + Len(ssns) <= MaxRows + 1
    /\ \E out \in {generate_test_data(db, ssns, options, SSN_ENCRYPTION_KEY,
                                      SSN_HASH_SALT, urandom + 1)} :
           /\ db' = out.db
           /\ urandom' = urandom + Count(out.res.prims, "Fernet.encrypt")
           /\ call' = Called("generate_test_data", ssns, out.res, "direct")
    /\ prev' = NoCall
    /\ UNCHANGED <<Config, Record, income_ciphertext, threads>>

\* one query() of _benchmark_encrypted_ssn_lookup
EncryptedSsnLookup(ssn) ==
    /\ call' = Called("encrypted_ssn_lookup", ssn,
                      encrypted_ssn_lookup(db, ssn, SSN_HASH_SALT), "direct")
    /\ prev' = NoCall
    /\ UNCHANGED <<Config, Record, urandom, Elsewhere>>

\* one query() of _benchmark_baseline_ssn_lookup
BaselineSsnLookup(ssn) ==
    /\ call' = Called("baseline_ssn_lookup", ssn, baseline_ssn_lookup(db, ssn), "direct")
    /\ prev' = NoCall
    /\ UNCHANGED <<Config, Record, urandom, Elsewhere>>

NextLookup ==
    \/ \E ssns \in Lists(GeneratedSsns, MaxCount), options \in Options :
           GenerateTestData(ssns, options)
    \/ \E ssn \in Queries \cup {None} : EncryptedSsnLookup(ssn)
    \/ \E ssn \in Queries : BaselineSsnLookup(ssn)

SpecLookup == Init /\ [][NextLookup]_vars

---------------------------------------------------------------------------
(* ApplicantEncrypted.income: assignments and reads *)

IncomeCoefficients ==
    {<<"0">>, <<"5">>, <<"1", "5">>, <<"2", "5">>, <<"1", "2", "3", "4">>,
     <<"1", "2", "3", "6">>, <<"9", "9", "9", "5">>}

\* Decimals of at most MaxFrac fractional digits, one whose quantized form
\* exceeds the context precision, a str that is no number, and None
Incomes ==
    {Decimal(sign, int, exp) :
        sign \in {0, 1}, int \in IncomeCoefficients, exp \in (-MaxFrac)..1}
    \cup {Decimal(0, <<"1">>, PREC - 1), <<"a">>, None}

\* an assignment that also writes a hash of the income to the hash column
AssignIncome_Hashing(value, how, before) ==
    \E out \in {income_setter(income_ciphertext, value, SSN_ENCRYPTION_KEY, urandom + 1)} :
        /\ Drew(out.res) => urandom < MaxIV
        /\ income_ciphertext' = out.self
        /\ ssn_hash' = IF Drew(out.res) THEN Sha256Hex(Utf8Encode(PyStr(value)))
                       ELSE ssn_hash
        /\ urandom' = IF Drew(out.res) THEN urandom + 1 ELSE urandom
        /\ call' = Called("income.setter", value, out.res, how)
        /\ prev' = before
        /\ UNCHANGED <<Config, ssn_ciphertext, db, threads>>

\* applicant.income = value
AssignIncome(value, how, before) ==
    \E out \in {income_setter(income_ciphertext, value, SSN_ENCRYPTION_KEY, urandom + 1)} :
        /\ Drew(out.res) => urandom < MaxIV
        /\ income_ciphertext' = out.self
        /\ urandom' = IF Drew(out.res) THEN urandom + 1 ELSE urandom
        /\ call' = Called("income.setter", value, out.res, how)
        /\ prev' = before
        /\ UNCHANGED <<Config, Record, db, threads>>

SetIncome(value) ==
    /\ Idle
    /\ AssignIncome(value, "direct", NoCall)

\* applicant.income, read after whatever came before
GetIncome ==
    /\ call.op \in {"none", "income.setter", "income_ciphertext"}
    /\ call' = Called("income.getter", << >>,
                      income_getter(income_ciphertext, SSN_ENCRYPTION_KEY), "direct")
    /\ prev' = call
    /\ UNCHANGED <<Config, Record, urandom, Elsewhere>>

\* applicant.income = applicant.income, with the value just read
ReassignIncome ==
    /\ call.op = "income.getter" /\ call.res.kind = "ok" /\ call.res.val # None
    /\ prev.op = "income.setter" /\ prev.how = "direct"
    /\ AssignIncome(call.res.val, "reassign", call)

\* applicant.income = None, after an assignment or a read
ClearIncome ==
    /\ call.op \in {"income.setter", "income.getter"}
    /\ call.how \in {"direct", "reassign"}
    /\ AssignIncome(None, "clear", call)

\* the column of a stored applicant holding something else than was written
Stored(c, how) ==
    /\ income_ciphertext' = c
    /\ call' = Called("income_ciphertext", c, Ok(None, << >>), how)
    /\ prev' = call
    /\ UNCHANGED <<Config, Record, urandom, db, threads>>

\* the tokens of an income as a deployment with either key wrote them
IncomeTokens ==
    {FernetEncrypt(k, 0, Utf8Encode(DecimalStr(Decimal(0, <<"2", "5", "0", "0">>,
                                                       -DECIMAL_PLACES)))) :
        k \in FernetKeys}

\* an applicant loaded from a row a deployment wrote
StoreIssuedIncome(token) ==
    /\ Idle
    /\ Stored(token, IF token[3][2] = SSN_ENCRYPTION_KEY THEN "issued"
                     ELSE IF SSN_ENCRYPTION_KEY \in FernetKeys THEN "wrong_key"
                     ELSE "unkeyed")

IncomeProduced ==
    call.op = "income.setter" /\ call.how = "direct" /\ call.res.kind = "ok" /\ call.arg # None

\* one of the token's four parts replaced by that part of another token
StoreTampered(part, donor) ==
    /\ IncomeProduced
    /\ donor[part] # income_ciphertext[part]
    /\ Stored([income_ciphertext EXCEPT ![part] = donor[part]], "tampered")

\* a proper, non-empty prefix of the token
StoreTruncated(k) ==
    /\ IncomeProduced
    /\ Stored(SubSeq(income_ciphertext, 1, k), "truncated")

\* the token another key gives for the same plaintext
StoreWrongKey(k) ==
    /\ IncomeProduced
    /\ k # SSN_ENCRYPTION_KEY
    /\ Stored(FernetEncrypt(k, income_ciphertext[2], income_ciphertext[3][4]), "wrong_key")

NextIncome ==
    \/ \E value \in Incomes : SetIncome(value)
    \/ GetIncome
    \/ ReassignIncome
    \/ ClearIncome
    \/ \E token \in IncomeTokens : StoreIssuedIncome(token)
    \/ \E part \in 1..4, donor \in IssuedTokens \cup {GarbageToken} :
           StoreTampered(part, donor)
    \/ \E k \in 1..3 : StoreTruncated(k)
    \/ \E k \in FernetKeys : StoreWrongKey(k)

SpecIncome == Init /\ [][NextIncome]_vars

\* the codec functions and the income accessors, which share _get_fernet
SpecCodecIncome == Init /\ [][NextCodec \/ NextIncome]_vars

---------------------------------------------------------------------------
(* Applicant data generation and the top-N queries *)

\* what handle draws, Decimal(str(random.randint(...) / 100)): 5000.0 and 7500.25
GeneratedIncomes ==
    {Decimal(0, <<"5", "0", "0", "0", "0">>, -1),
     Decimal(0, <<"7", "5", "0", "0", "2", "5">>, -2)}

\* Decimal(options["threshold"]) of --threshold 0 and 5000
Thresholds == {Decimal(0, <<"0">>, 0), Decimal(0, <<"5", "0", "0", "0">>, 0)}

\* --top-n
TopNs == 0..MaxCount

\* python manage.py generate_applicant_data --count Len(incomes) ..., run once
\* before the benchmark is
GenerateApplicantData(incomes, options) ==
    /\ call.op = "none"
    /\ urandom + Len(incomes) <= MaxRows
    /\ \A t \in {"applicant_encrypted", "applicant_baseline"} :
           db.id_seq[t] + Len(incomes) <= MaxRows + 1
    /\ \E out \in {generate_applicant_data(db, incomes, options, SSN_ENCRYPTION_KEY,
                                           urandom + 1)} :
           /\ db' = out.db
           /\ urandom' = urandom + Count(out.res.prims, "Fernet.encrypt")
           /\ call' = Called("generate_applicant_data", incomes, out.res, "direct")
    /\ prev' = NoCall
    /\ UNCHANGED <<Config, Record, income_ciphertext, threads>>

\* the stored applicant at a place of the table saved with c in its column
SaveApplicant(place, c, how) ==
    /\ call.op = "generate_applicant_data"
    /\ place \in 1..Len(db.applicant_encrypted)
    /\ db' = [db EXCEPT !.applicant_encrypted[place][2] = c]
    /\ call' = Called("save", place, Ok(None, << >>), how)
    /\ prev' = NoCall
    /\ UNCHANGED <<Config, Record, urandom, income_ciphertext, threads>>

\* applicant.income = None; applicant.save()
SaveCleared(place) ==
    SaveApplicant(place,
                  income_setter(<< >>, None, SSN_ENCRYPTION_KEY, urandom + 1).self,
                  "cleared")

\* the token of a row with one part replaced by that part of another token
SaveCorrupted(place, part) ==
    /\ place \in 1..Len(db.applicant_encrypted)
    /\ SaveApplicant(place,
                     [db.applicant_encrypted[place][2] EXCEPT ![part] = GarbageToken[part]],
                     "corrupted")

\* the token of a row replaced by the one another key gives for its income
SaveWrongKey(place, k) ==
    /\ place \in 1..Len(db.applicant_encrypted)
    /\ k # SSN_ENCRYPTION_KEY
    /\ \E token \in {db.applicant_encrypted[place][2]} :
           SaveApplicant(place, FernetEncrypt(k, token[2], token[3][4]), "wrong_key")

\* handle goes on to the benchmarks only with rows in both tables
DataAvailable == db.applicant_encrypted # << >> /\ db.applicant_baseline # << >>

\* one query of _benchmark_encrypted
EncryptedTopN(threshold, top_n) ==
    /\ DataAvailable
    /\ call' = Called("encrypted_top_n", <<threshold, top_n>>,
                      encrypted_top_n(db, threshold, top_n, SSN_ENCRYPTION_KEY),
                      "direct")
    /\ prev' = NoCall
    /\ UNCHANGED <<Config, Record, urandom, Elsewhere>>

\* one query of _benchmark_baseline
BaselineTopN(threshold, top_n) ==
    /\ DataAvailable
    /\ \E results \in baseline_top_n(db, threshold, top_n) :
           call' = Called("baseline_top_n", <<threshold, top_n>>,
                          Ok(results, << >>), "direct")
    /\ prev' = NoCall
    /\ UNCHANGED <<Config, Record, urandom, Elsewhere>>

NextRange ==
    \/ \E incomes \in Lists(GeneratedIncomes, MaxCount), options \in Options :
           GenerateApplicantData(incomes, options)
    \/ \E place \in 1..MaxRows : SaveCleared(place)
    \/ \E place \in 1..MaxRows, part \in {1, 4} : SaveCorrupted(place, part)
    \/ \E place \in 1..MaxRows, k \in FernetKeys : SaveWrongKey(place, k)
    \/ \E threshold \in Thresholds, top_n \in TopNs : EncryptedTopN(threshold, top_n)
    \/ \E threshold \in Thresholds, top_n \in TopNs : BaselineTopN(threshold, top_n)

SpecRange == Init /\ [][NextRange]_vars

---------------------------------------------------------------------------
(* The generation commands by themselves *)

\* --batch-size, --clear, --encrypted-only, --baseline-only
GenerateOptions ==
    [batch_size : 1..MaxGenerated, clear : BOOLEAN,
     encrypted_only : BOOLEAN, baseline_only : BOOLEAN]

\* a command runs on the tables as migrated (where --clear finds nothing to
\* clear and is left out), or after a run of the same command that put one
\* row into each of its tables
Seeded(command, options) ==
    IF call.op = "none" THEN ~options.clear
    ELSE /\ call.op = command
         /\ call.res.kind = "ok"
         /\ Len(call.arg[1]) = 1
         /\ call.arg[2] = [batch_size |-> 1, clear |-> FALSE,
                           encrypted_only |-> FALSE, baseline_only |-> FALSE]

\* python manage.py generate_test_data --count Len(ssns) ...; the call is
\* recorded with its options
RunGenerateTestData(ssns, options) ==
    /\ Seeded("generate_test_data", options)
    /\ urandom + Len(ssns) <= MaxGenerated
    /\ \A t \in {"person_encrypted", "person_baseline"} :
           db.id_seq[t] + Len(ssns) <= MaxGenerated + 1
    /\ \E out \in {generate_test_data(db, ssns, options, SSN_ENCRYPTION_KEY,
                                      SSN_HASH_SALT, urandom + 1)} :
           /\ db' = out.db
           /\ urandom' = urandom + Count(out.res.prims, "Fernet.encrypt")
           /\ call' = Called("generate_test_data", <<ssns, options>>, out.res, "direct")
    /\ prev' = NoCall
    /\ UNCHANGED <<Config, Record, income_ciphertext, threads>>

\* python manage.py generate_applicant_data --count Len(incomes) ...
RunGenerateApplicantData(incomes, options) ==
    /\ Seeded("generate_applicant_data", options)
    /\ urandom + Len(incomes) <= MaxGenerated
    /\ \A t \in {"applicant_encrypted", "applicant_baseline"} :
           db.id_seq[t] + Len(incomes) <= MaxGenerated + 1
    /\ \E out \in {generate_applicant_data(db, incomes, options, SSN_ENCRYPTION_KEY,
                                           urandom + 1)} :
           /\ db' = out.db
           /\ urandom' = urandom + Count(out.res.prims, "Fernet.encrypt")
           /\ call' = Called("generate_applicant_data", <<incomes, options>>, out.res,
                             "direct")
    /\ prev' = NoCall
    /\ UNCHANGED <<Config, Record, income_ciphertext, threads>>

NextGenerate ==
    \/ \E ssns \in Lists(GeneratedSsns, MaxGenerated), options \in GenerateOptions :
           RunGenerateTestData(ssns, options)
    \/ \E incomes \in Lists(GeneratedIncomes, MaxGenerated), options \in GenerateOptions :
           RunGenerateApplicantData(incomes, options)

SpecGenerate == Init /\ [][NextGenerate]_vars

---------------------------------------------------------------------------
(* Everything together *)

\* the calls of each component
CodecOps == {"none", "normalize_ssn", "encrypt_ssn", "decrypt_ssn", "hash_ssn", "mask_ssn"}
PersonOps == {"none", "ssn.setter", "ssn.getter", "ssn_masked", "ssn_ciphertext"}
IncomeOps == {"none", "income.setter", "income.getter", "income_ciphertext"}
LookupOps == {"none", "generate_test_data", "encrypted_ssn_lookup", "baseline_ssn_lookup"}
RangeOps == {"none", "generate_applicant_data", "save", "encrypted_top_n", "baseline_top_n"}

\* one token of each key
SystemTokens == {FernetEncrypt(k, 1, Utf8Encode(Leading(SSN_DIGITS))) : k \in FernetKeys}

\* incomes assigned here: None, 25.00, and a str that is no number
SystemIncomes == {None, Decimal(0, <<"2", "5", "0", "0">>, -DECIMAL_PLACES), <<"a">>}

\* the accessors of a person and of an applicant in any order, so that each
\* acts while the fields of the other are set
NextFields ==
    \/ \E value \in AssignedSsns : SetSsn(value)
    \/ GetSsn
    \/ GetSsnMasked
    \/ \E token \in SystemTokens : StoreIssued(token)
    \/ \E value \in SystemIncomes : AssignIncome(value, "direct", NoCall)
    \/ GetIncome
    \/ \E token \in IncomeTokens : Stored(token, "issued")

SpecFields == Init /\ [][NextFields]_vars

\* every kind of operation of the model, each with a few values; a behaviour
\* stays with the component its first call belongs to
NextSystem ==
    \/ call.op \in CodecOps /\ \E s \in AssignedSsns : CallNormalize(s)
    \/ call.op \in CodecOps /\ \E s \in AssignedSsns : CallEncrypt(s)
    \/ call.op \in CodecOps /\ \E s \in AssignedSsns : CallHash(s)
    \/ call.op \in CodecOps /\ \E s \in AssignedSsns : CallMask(s)
    \/ call.op \in CodecOps /\ \E c \in SystemTokens \cup {<< >>} : CallDecrypt(c)
    \/ call.op \in PersonOps /\ \E value \in AssignedSsns : SetSsn(value)
    \/ call.op \in PersonOps /\ GetSsn
    \/ call.op \in PersonOps /\ GetSsnMasked
    \/ call.op \in PersonOps /\ \E token \in SystemTokens : StoreIssued(token)
    \/ call.op \in IncomeOps /\ \E value \in SystemIncomes : SetIncome(value)
    \/ call.op \in IncomeOps /\ GetIncome
    \/ call.op \in LookupOps /\ \E ssns \in Lists(GeneratedSsns, MaxCount), options \in Options :
           GenerateTestData(ssns, options)
    \/ call.op \in LookupOps /\ \E ssn \in GeneratedSsns : EncryptedSsnLookup(ssn)
    \/ call.op \in LookupOps /\ \E ssn \in GeneratedSsns : BaselineSsnLookup(ssn)
    \/ call.op \in RangeOps /\ \E incomes \in Lists(GeneratedIncomes, MaxCount), options \in Options :
           GenerateApplicantData(incomes, options)
    \/ call.op \in RangeOps /\ \E threshold \in Thresholds, top_n \in TopNs : EncryptedTopN(threshold, top_n)
    \/ call.op \in RangeOps /\ \E threshold \in Thresholds, top_n \in TopNs : BaselineTopN(threshold, top_n)

SpecSystem == Init /\ [][NextSystem]_vars

---------------------------------------------------------------------------
(* The codec functions called from several threads *)

\* a frame that all threads share
Frame_Shared(t) == threads[1]

\* the locals of the call thread t is in: each thread has its own stack
Frame(t) == threads[t]

\* the call reads settings: decrypt_ssn first of all, encrypt_ssn and hash_ssn
\* once normalize_ssn has returned
ReadsSettings(frame) ==
    \/ frame.op = "decrypt_ssn"
    \/ frame.op \in {"encrypt_ssn", "hash_ssn"} /\ normalize_ssn(frame.arg).kind = "ok"

\* the call reaches fernet.encrypt, which draws the IV from os.urandom
DrawsIV(frame) ==
    /\ frame.op = "encrypt_ssn"
    /\ normalize_ssn(frame.arg).kind = "ok"
    /\ _get_fernet(frame.conf).kind = "ok"

\* what the call returns or raises, computed from its own locals
Returned(frame) ==
    CASE frame.op = "normalize_ssn" -> normalize_ssn(frame.arg)
      [] frame.op = "mask_ssn" -> mask_ssn(frame.arg)
      [] frame.op = "hash_ssn" -> hash_ssn(frame.arg, frame.conf)
      [] frame.op = "decrypt_ssn" -> decrypt_ssn(frame.arg, frame.conf)
      [] frame.op = "encrypt_ssn" -> encrypt_ssn(frame.arg, frame.conf, frame.iv)
      [] OTHER -> frame.res

\* thread t calls op(arg)
Begin(t, op, arg) ==
    /\ threads[t].pc = "idle"
    /\ threads' = [threads EXCEPT ![t] = [@ EXCEPT !.pc = "called", !.op = op, !.arg = arg]]
    /\ UNCHANGED <<Config, Record, urandom, call, prev, income_ciphertext, db>>

\* key = settings.SSN_ENCRYPTION_KEY, or salt = settings.SSN_HASH_SALT
ReadSettings(t) ==
    /\ threads[t].pc = "called"
    /\ ReadsSettings(threads[t])
    /\ threads' = [threads EXCEPT ![t] =
                      [@ EXCEPT !.pc = "configured",
                                !.conf = IF threads[t].op = "hash_ssn" THEN SSN_HASH_SALT
                                         ELSE SSN_ENCRYPTION_KEY]]
    /\ UNCHANGED <<Config, Record, urandom, call, prev, income_ciphertext, db>>

\* os.urandom(16) inside fernet.encrypt
DrawIV(t) ==
    /\ threads[t].pc = "configured"
    /\ DrawsIV(threads[t])
    /\ urandom' = urandom + 1
    /\ threads' = [threads EXCEPT ![t] = [@ EXCEPT !.pc = "drew", !.iv = urandom + 1]]
    /\ UNCHANGED <<Config, Record, call, prev, income_ciphertext, db>>

\* the call of thread t returns or raises
Return(t) ==
    /\ \/ threads[t].pc = "called" /\ ~ReadsSettings(threads[t])
       \/ threads[t].pc = "configured" /\ ~DrawsIV(threads[t])
       \/ threads[t].pc = "drew"
    /\ threads' = [threads EXCEPT ![t] =
                      [@ EXCEPT !.pc = "returned", !.res = Returned(Frame(t))]]
    /\ UNCHANGED <<Config, Record, urandom, call, prev, income_ciphertext, db>>

NextThreads ==
    \/ \E t \in 1..MaxThreads, s \in {Leading(SSN_DIGITS), Leading(SSN_DIGITS - 1)},
           op \in {"normalize_ssn", "encrypt_ssn", "hash_ssn", "mask_ssn"} : Begin(t, op, s)
    \/ \E t \in 1..MaxThreads, c \in SystemTokens : Begin(t, "decrypt_ssn", c)
    \/ \E t \in 1..MaxThreads : ReadSettings(t)
    \/ \E t \in 1..MaxThreads : DrawIV(t)
    \/ \E t \in 1..MaxThreads : Return(t)

SpecThreads == Init /\ [][NextThreads]_vars

---------------------------------------------------------------------------
(* What the claims are stated with *)

IsAsciiDigit(c) == c \in AsciiDigits

\* the ASCII digits of a str, in order
DigitsOf(s) == SelectSeq(s, IsAsciiDigit)

\* a str holding exactly nine ASCII digits
NineDigits(v) == IsStr(v) /\ Len(DigitsOf(v)) = 9

\* a str of exactly nine ASCII digits and nothing else
IsNormalized(v) == NineDigits(v) /\ Len(v) = 9

KeyConfigured == Truthy(SSN_ENCRYPTION_KEY)
SaltConfigured == Truthy(SSN_HASH_SALT)
KeyValid == SSN_ENCRYPTION_KEY \in FernetKeys

\* the two columns hold what the setter computes from value
HoldsValue(value, ct, h) ==
    IF value = None THEN ct = << >> /\ h = << >>
    ELSE /\ decrypt_ssn(ct, SSN_ENCRYPTION_KEY) = Ok(DigitsOf(value), <<"Fernet", "Fernet.decrypt">>)
         /\ hash_ssn(value, SSN_HASH_SALT).kind = "ok"
         /\ h = hash_ssn(value, SSN_HASH_SALT).val

---------------------------------------------------------------------------
(* PersonEncrypted.ssn setter *)

\* C1: an assignment to ssn either succeeds and leaves both columns holding
\* the values computed from the assigned value, or fails and leaves both
\* columns as they were.
C1_SetterAtomic ==
    [][call'.op = "ssn.setter" =>
         \/ /\ call'.res.kind = "ok"
            /\ HoldsValue(call'.arg, ssn_ciphertext', ssn_hash')
         \/ /\ call'.res.kind # "ok"
            /\ UNCHANGED Record]_vars

\* C2: ssn_ciphertext and ssn_hash are both empty or both non-empty, after
\* any sequence of assignments, failed ones included.
C2_BothOrNeither == (ssn_ciphertext = << >>) <=> (ssn_hash = << >>)

---------------------------------------------------------------------------
(* The codec functions *)

\* C3 as amended: with no key configured decrypt_ssn fails with
\* SSNConfigurationError for every input and encrypt_ssn for every input that
\* normalizes; with no salt configured hash_ssn fails with
\* SSNConfigurationError for every input that normalizes.  An input that does
\* not normalize fails on its format first (SSNEncryptionError from
\* encrypt_ssn, ValueError or TypeError from hash_ssn).  In all these calls no
\* cipher or digest primitive is invoked.
C3_ConfigGate ==
    /\ (call.op = "decrypt_ssn" /\ ~KeyConfigured) =>
           call.res = Raise("SSNConfigurationError", << >>)
    /\ (call.op = "encrypt_ssn" /\ ~KeyConfigured) =>
           call.res = Raise(IF NineDigits(call.arg) THEN "SSNConfigurationError"
                            ELSE "SSNEncryptionError", << >>)
    /\ (call.op = "hash_ssn" /\ ~SaltConfigured) =>
           call.res = Raise(IF NineDigits(call.arg) THEN "SSNConfigurationError"
                            ELSE IF IsStr(call.arg) THEN "ValueError"
                            ELSE "TypeError", << >>)

\* C3 as claimed: with no key configured encrypt_ssn and decrypt_ssn fail
\* with SSNConfigurationError for every input, and with no salt configured
\* hash_ssn does, inputs that are no valid identifier included.
C3_ConfigGateEveryInput ==
    /\ (call.op \in {"encrypt_ssn", "decrypt_ssn"} /\ ~KeyConfigured) =>
           call.res.kind = "SSNConfigurationError"
    /\ (call.op = "hash_ssn" /\ ~SaltConfigured) =>
           call.res.kind = "SSNConfigurationError"

C3_Witness ==
    /\ call.op = "hash_ssn" /\ ~SaltConfigured
    /\ NineDigits(call.arg) /\ ~IsNormalized(call.arg)
    /\ call.res.kind = "SSNConfigurationError"

\* C4: with a valid key, encrypt_ssn succeeds on every str holding exactly
\* nine digits, and decrypt_ssn of the token it returns is normalize_ssn of
\* that str; for an already normalized str it is the str itself.
C4_RoundTrip ==
    /\ (call.op = "encrypt_ssn" /\ KeyValid /\ NineDigits(call.arg)) =>
           call.res.kind = "ok"
    /\ (call.op = "decrypt_ssn" /\ call.how = "produced") =>
           /\ call.res.kind = "ok"
           /\ call.res.val = normalize_ssn(prev.arg).val
           /\ IsNormalized(prev.arg) => call.res.val = prev.arg

C4_Witness ==
    /\ call.op = "decrypt_ssn" /\ call.how = "produced"
    /\ call.res.kind = "ok"
    /\ ~IsNormalized(prev.arg)
    /\ IsNormalized(call.res.val)

\* C5: for a fixed salt, a second hash_ssn of the same input returns the
\* same digest, and two inputs that normalize have equal digests exactly
\* when their normalized values are equal.
C5_HashEquality ==
    /\ (call.op = "hash_ssn" /\ call.how = "again") => call.res = prev.res
    /\ (call.op = "hash_ssn" /\ call.res.kind = "ok") =>
           \A b \in Strings :
               normalize_ssn(b).kind = "ok" =>
                   /\ hash_ssn(b, SSN_HASH_SALT).kind = "ok"
                   /\ (hash_ssn(b, SSN_HASH_SALT).val = call.res.val)
                          <=> (normalize_ssn(b).val = normalize_ssn(call.arg).val)

C5_Witness ==
    /\ call.op = "hash_ssn" /\ call.how = "again" /\ call.res.kind = "ok"
    /\ ~IsNormalized(call.arg)
    /\ \E b \in Strings : b # call.arg /\ hash_ssn(b, SSN_HASH_SALT) = call.res
    /\ \E b \in Strings :
           hash_ssn(b, SSN_HASH_SALT).kind = "ok" /\ hash_ssn(b, SSN_HASH_SALT) # call.res

TokenKey(c) == c[3][2]

\* C7: decrypt_ssn of a token with a part changed, of a truncated token or of
\* a token made with another key raises SSNDecryptionError and returns
\* nothing.
C7_DecryptFailsClosed ==
    /\ (call.op = "decrypt_ssn" /\ call.how \in {"tampered", "truncated", "wrong_key"}) =>
           /\ call.arg # prev.res.val
           /\ call.res.kind = "SSNDecryptionError"
           /\ call.res.val = << >>
    /\ (/\ call.op = "decrypt_ssn" /\ call.how = "direct" /\ KeyValid
        /\ Len(call.arg) = 4 /\ TokenKey(call.arg) # SSN_ENCRYPTION_KEY) =>
           /\ call.res.kind = "SSNDecryptionError"
           /\ call.res.val = << >>

C7_Witness ==
    /\ call.op = "decrypt_ssn" /\ call.how = "tampered"
    /\ call.arg[3] # prev.res.val[3]
    /\ TokenKey(call.arg) = SSN_ENCRYPTION_KEY
    /\ call.res.kind = "SSNDecryptionError"

\* C8: normalize_ssn of a str returns its ASCII digits, in order, when there
\* are exactly nine of them and raises ValueError otherwise; what it returns
\* is always nine ASCII digits.
C8_NormalizeDigits ==
    (call.op = "normalize_ssn" /\ IsStr(call.arg)) =>
        /\ Len(DigitsOf(call.arg)) = 9 => call.res = Ok(DigitsOf(call.arg), << >>)
        /\ Len(DigitsOf(call.arg)) # 9 => call.res = Raise("ValueError", << >>)
        /\ call.res.kind = "ok" =>
               /\ Len(call.res.val) = 9
               /\ \A i \in 1..Len(call.res.val) : call.res.val[i] \in AsciiDigits

C8_Witness ==
    /\ call.op = "normalize_ssn" /\ call.how = "direct"
    /\ call.res.kind = "ok"
    /\ Len(call.arg) > 9
    /\ \E i \in 1..Len(call.arg) : call.arg[i] = ArabicThree

\* C9: normalize_ssn of what normalize_ssn returned returns it again, and
\* normalize_ssn of a str of exactly nine digits returns that str.
C9_NormalizeIdempotent ==
    /\ (call.op = "normalize_ssn" /\ call.how = "again") =>
           /\ call.arg = prev.res.val
           /\ call.res = prev.res
    /\ (call.op = "normalize_ssn" /\ IsNormalized(call.arg)) =>
           call.res = Ok(call.arg, << >>)

C9_Witness ==
    /\ call.op = "normalize_ssn" /\ call.how = "again"
    /\ prev.arg # prev.res.val
    /\ call.res.kind = "ok"

\* C10: mask_ssn returns a str for every input, None included, and returns
\* "***-**-****" whenever the input cannot be normalized.
C10_MaskNeverRaises ==
    call.op = "mask_ssn" =>
        /\ call.res.kind = "ok"
        /\ ~NineDigits(call.arg) => call.res.val = Redacted


\* C11: for an input that normalizes to the digits d1..d9 mask_ssn returns
\* "***-**-" followed by d6 d7 d8 d9 and nothing else, and every other
\* spelling of the same nine digits is masked to the same str.
C11_MaskLastFour ==
    (call.op = "mask_ssn" /\ NineDigits(call.arg)) =>
        /\ call.res = Ok(<<"*", "*", "*", "-", "*", "*", "-">>
                         \o SubSeq(DigitsOf(call.arg), 6, 9), << >>)
        /\ \A b \in Strings :
               DigitsOf(b) = DigitsOf(call.arg) => mask_ssn(b) = call.res

C11_Witness ==
    /\ call.op = "mask_ssn" /\ NineDigits(call.arg)
    /\ call.arg[Len(call.arg)] \notin AsciiDigits
    /\ call.res.kind = "ok"
    /\ call.res.val # Redacted


---------------------------------------------------------------------------
(* PersonEncrypted.ssn: clearing and reading *)

\* C12: an assignment of "" or of None to ssn succeeds and leaves
\* ssn_ciphertext and ssn_hash both empty, whatever they held before.
C12_EmptyClears ==
    (call.op = "ssn.setter" /\ call.arg \in {<< >>, None}) =>
        /\ call.res.kind = "ok"
        /\ ssn_ciphertext = << >>
        /\ ssn_hash = << >>


\* what reading ssn yields for the record as it stands
Read == ssn_getter(Self, SSN_ENCRYPTION_KEY)

\* C13: reading ssn yields None whenever ssn_ciphertext is empty, with no key
\* consulted; after a successful assignment of v it yields normalize_ssn(v),
\* after a successful clear None; and an assignment that fails leaves what a
\* read yields as it was, so that after any sequence of assignments the read
\* reflects the last successful one.
C13_ReadReflectsAssignment ==
    [][/\ (call'.op = "ssn.getter" /\ ssn_ciphertext = << >>) =>
              call'.res = Ok(None, << >>)
       /\ (call'.op = "ssn.setter" /\ call'.res.kind = "ok") =>
              Read' = IF call'.arg = None THEN Ok(None, << >>)
                      ELSE Ok(normalize_ssn(call'.arg).val, <<"Fernet", "Fernet.decrypt">>)
       /\ (call'.op = "ssn.setter" /\ call'.res.kind # "ok") =>
              Read' = Read]_vars


---------------------------------------------------------------------------
(* The equality lookup *)

\* person_encrypted and person_baseline hold the same identifiers row for row
PersonsMirrored ==
    /\ Len(db.person_encrypted) = Len(db.person_baseline)
    /\ \A i \in 1..Len(db.person_encrypted) :
           /\ decrypt_ssn(db.person_encrypted[i][2], SSN_ENCRYPTION_KEY).kind = "ok"
           /\ decrypt_ssn(db.person_encrypted[i][2], SSN_ENCRYPTION_KEY).val
                  = db.person_baseline[i][2]

\* a lookup returned a row
Found(res) == res.kind = "ok" /\ res.val # None

\* the place of a returned row in its table
Place(rows, row) == CHOOSE i \in 1..Len(rows) : rows[i] = row

\* C14: over tables holding the same identifiers, the lookup by
\* ssn_hash = hash_ssn(v) returns a row exactly when the lookup by
\* ssn = normalize_ssn(v) returns one, and then the two rows are at the same
\* place of their tables and hold the same identifier; a v that does not
\* normalize makes the hash lookup raise.
C14_LookupEquivalence ==
    (call.op = "encrypted_ssn_lookup" /\ PersonsMirrored) =>
        IF NineDigits(call.arg)
        THEN LET plain == baseline_ssn_lookup(db, normalize_ssn(call.arg).val)
             IN  /\ Found(call.res) <=> Found(plain)
                 /\ Found(call.res) =>
                        /\ Place(db.person_encrypted, call.res.val)
                               = Place(db.person_baseline, plain.val)
                        /\ decrypt_ssn(call.res.val[2], SSN_ENCRYPTION_KEY).val
                               = plain.val[2]
                        /\ plain.val[2] = DigitsOf(call.arg)
        ELSE ~Found(call.res)

C14_Witness ==
    /\ call.op = "encrypted_ssn_lookup" /\ PersonsMirrored
    /\ Len(db.person_encrypted) = 2
    /\ ~IsNormalized(call.arg)
    /\ Found(call.res)
    /\ Place(db.person_encrypted, call.res.val) = 2

\* C15: the lookup by hash invokes no Fernet primitive, whatever the table
\* holds, and with a salt configured it succeeds for every identifier that
\* normalizes, whether or not a key is configured.
C15_LookupNeverDecrypts ==
    call.op = "encrypted_ssn_lookup" =>
        /\ \A i \in 1..Len(call.res.prims) : call.res.prims[i] = "sha256"
        /\ (SaltConfigured /\ NineDigits(call.arg)) =>
               /\ call.res.kind = "ok"
               /\ call.res.prims = <<"sha256">>

C15_Witness ==
    /\ call.op = "encrypted_ssn_lookup"
    /\ Found(call.res)
    /\ call.res.prims = <<"sha256">>
    /\ Len(db.person_encrypted) = 2


---------------------------------------------------------------------------
(* ApplicantEncrypted.income *)

\* the read follows a stored ciphertext that was tampered with, truncated or
\* made under another key
ReadOfDamaged ==
    /\ call.op = "income.getter"
    /\ prev.op = "income_ciphertext"
    /\ prev.how \in {"tampered", "truncated", "wrong_key"}

\* C19: reading income from a non-empty ciphertext that is corrupted,
\* truncated or made under another key raises SSNDecryptionError, the
\* codec's decryption error, and returns no value.
C19_IncomeReadFailsClosed ==
    ReadOfDamaged =>
        /\ call.res.kind = "SSNDecryptionError"
        /\ call.res.val = << >>

\* |a - b|
Distance(a, b) == IF a < b THEN b - a ELSE a - b

\* C20: a read after a successful assignment of the Decimal v returns a
\* Decimal of exponent -2 that is a nearest such value to v, and v itself in
\* value when v has at most two fractional digits; assigning the value read
\* succeeds, and the next read returns the same Decimal again.
C20_IncomeRoundTrip ==
    /\ (/\ call.op = "income.getter"
        /\ prev.op = "income.setter" /\ prev.how = "direct" /\ prev.res.kind = "ok"
        /\ prev.arg # None) =>
           /\ call.res.kind = "ok"
           /\ IsDecimal(call.res.val)
           /\ call.res.val[4] = -DECIMAL_PLACES
           /\ LET e == Min(prev.arg[4], -DECIMAL_PLACES)
              IN  2 * Distance(Units(call.res.val, e), Units(prev.arg, e))
                      <= Pow10(-DECIMAL_PLACES - e)
           /\ prev.arg[4] >= -DECIMAL_PLACES => DecimalEqual(call.res.val, prev.arg)
    /\ (call.op = "income.setter" /\ call.how = "reassign") =>
           /\ call.res.kind = "ok"
           /\ income_getter(income_ciphertext, SSN_ENCRYPTION_KEY) = prev.res

C20_Witness ==
    /\ call.op = "income.setter" /\ call.how = "reassign" /\ call.res.kind = "ok"
    /\ call.arg = Decimal(0, <<"2">>, -DECIMAL_PLACES)
    /\ income_getter(income_ciphertext, SSN_ENCRYPTION_KEY).val = call.arg
    /\ urandom = 2


---------------------------------------------------------------------------
(* The top-N queries *)

\* the applicant tables hold the same incomes: the record at each place of
\* applicant_encrypted decrypts to the income at that place of
\* applicant_baseline
ApplicantsMirrored ==
    /\ Len(db.applicant_encrypted) = Len(db.applicant_baseline)
    /\ \A i \in 1..Len(db.applicant_encrypted) :
           \E read \in {income_getter(db.applicant_encrypted[i][2], SSN_ENCRYPTION_KEY)} :
               /\ read.kind = "ok"
               /\ read.val # None
               /\ DecimalEqual(read.val, Income(db.applicant_baseline[i]))

\* the places in a table of the records of a result (a record is known by its id)
Places(rows, results) ==
    {i \in 1..Len(rows) : \E k \in 1..Len(results) : rows[i][1] = results[k][1]}

\* a decrypt-all query over mirrored tables has returned
RangeAnswered ==
    call.op = "encrypted_top_n" /\ call.res.kind = "ok" /\ ApplicantsMirrored

\* the results the plain store may give for the query of call
PlainAnswers == baseline_top_n(db, call.arg[1], call.arg[2])

\* both results have the same length and the same income at every position
SameIncomes(top_results, plain) ==
    /\ Len(top_results) = Len(plain)
    /\ \A i \in 1..Len(top_results) :
           DecimalEqual(Income(top_results[i]), Income(plain[i]))

\* C16 as stated: over mirrored tables the decrypt-all query returns the
\* records the plain store's query returns, with the same income at every
\* position, so that the two results differ at most in the order of records
\* of equal income.
C16_SameRecordsUpToTieOrder ==
    RangeAnswered =>
        \A plain \in PlainAnswers :
            /\ SameIncomes(call.res.val[1], plain)
            /\ Places(db.applicant_encrypted, call.res.val[1])
                   = Places(db.applicant_baseline, plain)

\* the places of the records whose income is above the threshold and equal
\* to the last income returned
AtCutOff(top_results, threshold) ==
    {i \in 1..Len(db.applicant_baseline) :
        /\ top_results # << >>
        /\ DecimalLess(threshold, Income(db.applicant_baseline[i]))
        /\ DecimalEqual(Income(db.applicant_baseline[i]),
                        Income(top_results[Len(top_results)]))}

\* C16, amended: over mirrored tables the decrypt-all query and the plain
\* store's query return results of the same length with the same income at
\* every position; outside the records that share the last income returned
\* they return the same records, and they return the same records altogether
\* unless records of that income are left out by the limit.
C16_SameIncomesAndRecordsUpToTies ==
    RangeAnswered =>
        \A plain \in PlainAnswers :
            \E cut \in {AtCutOff(call.res.val[1], call.arg[1])},
               mine \in {Places(db.applicant_encrypted, call.res.val[1])},
               theirs \in {Places(db.applicant_baseline, plain)} :
                /\ SameIncomes(call.res.val[1], plain)
                /\ mine \ cut = theirs \ cut
                /\ Cardinality(mine) = Cardinality(theirs)
                /\ cut \subseteq mine => mine = theirs

\* two records of one income above the threshold and a limit of one: the plain
\* store may return the one the decrypt-all query does not
C16_Witness ==
    /\ RangeAnswered
    /\ call.arg[2] = 1
    /\ Len(call.res.val[1]) = 1
    /\ \E plain \in PlainAnswers :
           Places(db.applicant_baseline, plain)
               # Places(db.applicant_encrypted, call.res.val[1])


\* C17: a decrypt-all query that completes has fetched every record of
\* applicant_encrypted and decrypted each of them once, in order, whatever the
\* threshold and the limit: records_scanned and the number of decryptions
\* equal the number of records, the records filtered and returned are taken
\* from the decrypted list afterwards; a query that fails has decrypted no
\* record twice.
C17_DecryptsEveryRecordOnce ==
    call.op = "encrypted_top_n" =>
        /\ Count(call.res.prims, "Fernet.decrypt") <= Len(db.applicant_encrypted)
        /\ call.res.kind = "ok" =>
               /\ call.res.val[2] = Len(db.applicant_encrypted)
               /\ call.res.val[5] = [i \in 1..Len(db.applicant_encrypted) |->
                                        db.applicant_encrypted[i][1]]
               /\ Count(call.res.prims, "Fernet.decrypt") = Len(db.applicant_encrypted)
               /\ call.res.val[4] <= call.res.val[3]
               /\ call.res.val[3] <= call.res.val[2]
               /\ call.res.val[4] = Min(call.arg[2], call.res.val[3])

\* a limit of zero over two records, one of them at or below the threshold:
\* both are decrypted, none is returned
C17_Witness ==
    /\ call.op = "encrypted_top_n" /\ call.res.kind = "ok"
    /\ call.arg[2] = 0
    /\ Len(db.applicant_encrypted) >= 2
    /\ call.res.val[3] = 1
    /\ call.res.val[4] = 0
    /\ Count(call.res.prims, "Fernet.decrypt") = Len(db.applicant_encrypted)

\* the key is configured and some record of applicant_encrypted holds a
\* ciphertext that Fernet does not decrypt under it
ScannedUndecryptable ==
    /\ call.op = "encrypted_top_n"
    /\ SSN_ENCRYPTION_KEY \in FernetKeys
    /\ \E i \in 1..Len(db.applicant_encrypted) :
           FernetDecrypt(SSN_ENCRYPTION_KEY, db.applicant_encrypted[i][2]).kind # "ok"

\* C18: a decrypt-all query over a table with a record whose ciphertext
\* cannot be decrypted (corrupted, made under another key, or empty after the
\* income was cleared) fails with SSNDecryptionError, the codec's decryption
\* error, and returns no result.
C18_ScanFailsWithDecryptionError ==
    ScannedUndecryptable =>
        /\ call.res.kind = "SSNDecryptionError"
        /\ call.res.val = << >>


---------------------------------------------------------------------------
(* PersonEncrypted.ssn_masked *)

\* what person.ssn gives for the record as it is
ReadNow == ssn_getter(Self, SSN_ENCRYPTION_KEY)

\* C21: producing the masked display of a stored record whose identifier
\* cannot be read, for a decryption or a configuration failure, does not
\* return normally: the codec's error reaches the caller of ssn_masked.
C21_MaskedDisplayPropagates ==
    (/\ call.op = "ssn_masked"
     /\ Truthy(ssn_ciphertext)
     /\ ReadNow.kind \in {"SSNConfigurationError", "SSNDecryptionError"}) =>
        call.res.kind = ReadNow.kind

MaskPrefix == <<"*", "*", "*", "-", "*", "*", "-">>

\* C30: ssn_masked never raises and returns a str of the form ***-**-XXXX:
\* the redacted placeholder when ssn_ciphertext is empty or the identifier
\* cannot be read, and otherwise the last four digits of the decrypted
\* identifier behind the masked groups.
C30_MaskedNeverRaises ==
    call.op = "ssn_masked" =>
        /\ call.res.kind = "ok"
        /\ Len(call.res.val) = Len(Redacted)
        /\ SubSeq(call.res.val, 1, Len(MaskPrefix)) = MaskPrefix
        /\ ~Truthy(ssn_ciphertext) => call.res.val = Redacted
        /\ ReadNow.kind # "ok" => call.res.val = Redacted
        /\ (Truthy(ssn_ciphertext) /\ ReadNow.kind = "ok") =>
               /\ call.res.val =
                      MaskPrefix \o SubSeq(ReadNow.val, Len(ReadNow.val) - MASK_SHOWN + 1,
                                           Len(ReadNow.val))
               /\ \A i \in (Len(MaskPrefix) + 1)..Len(call.res.val) :
                      call.res.val[i] \in AsciiDigits

\* the masked display of a record whose ciphertext the configured key does
\* not decrypt
C30_Witness ==
    /\ call.op = "ssn_masked"
    /\ SSN_ENCRYPTION_KEY \in FernetKeys
    /\ Truthy(ssn_ciphertext)
    /\ ReadNow.kind = "SSNDecryptionError"
    /\ call.res = Ok(Redacted, <<"Fernet", "Fernet.decrypt">>)


---------------------------------------------------------------------------
(* A key that is set but is no Fernet key *)

MalformedKey == Truthy(SSN_ENCRYPTION_KEY) /\ SSN_ENCRYPTION_KEY \notin FernetKeys

KeyedOps == {"encrypt_ssn", "decrypt_ssn", "income.setter", "income.getter"}

\* C22 as stated: with a key that is set but malformed, encrypt_ssn,
\* decrypt_ssn and the income getter and setter all fail with
\* SSNConfigurationError.
C22_MalformedKeyAlwaysConfigurationError ==
    (MalformedKey /\ call.op \in KeyedOps) => call.res.kind = "SSNConfigurationError"

\* the call reached _get_fernet: encrypt_ssn normalizes first, the income
\* setter returns early for None and the getter for an empty ciphertext
ReachedKey ==
    CASE call.op = "encrypt_ssn" -> normalize_ssn(call.arg).kind = "ok"
      [] call.op = "decrypt_ssn" -> TRUE
      [] call.op = "income.setter" -> call.arg # None
      [] call.op = "income.getter" -> Truthy(income_ciphertext)

\* C22, amended: with a key that is set but malformed, every call of
\* encrypt_ssn, decrypt_ssn and the income accessors that reaches the key
\* fails with SSNConfigurationError after the Fernet constructor and nothing
\* else, never re-wrapped; a call that does not reach the key ends as it does
\* under any key: encrypt_ssn with SSNEncryptionError for an argument that does
\* not normalize, the income setter for None and the getter of an empty
\* ciphertext normally.
C22_MalformedKeyConfigurationError ==
    (MalformedKey /\ call.op \in KeyedOps) =>
        IF ReachedKey
        THEN call.res = Raise("SSNConfigurationError", <<"Fernet">>)
        ELSE /\ call.res.prims = << >>
             /\ call.res.kind = IF call.op = "encrypt_ssn" THEN "SSNEncryptionError"
                                ELSE "ok"

\* the income read from a stored token under a malformed key
C22_Witness ==
    /\ MalformedKey
    /\ call.op = "income.getter"
    /\ Truthy(income_ciphertext)
    /\ call.res.kind = "SSNConfigurationError"


---------------------------------------------------------------------------
(* The configuration is only read *)

\* C23: no codec operation, field accessor, query or data-generation step
\* changes the encryption key or the hash salt, whether it succeeds or fails.
C23_ConfigurationReadOnly ==
    [][SSN_ENCRYPTION_KEY' = SSN_ENCRYPTION_KEY /\ SSN_HASH_SALT' = SSN_HASH_SALT]_vars

\* an assignment that encrypted with the key and then failed on the missing
\* salt
C23_Witness ==
    /\ call.op = "ssn.setter"
    /\ call.res.kind = "SSNConfigurationError"
    /\ SSN_ENCRYPTION_KEY \in FernetKeys
    /\ ~Truthy(SSN_HASH_SALT)
    /\ Truthy(ssn_ciphertext)


---------------------------------------------------------------------------
(* The stored hash and the stored ciphertext *)

\* what the stored ciphertext decrypts to under the configured key
StoredIdentifier == decrypt_ssn(ssn_ciphertext, SSN_ENCRYPTION_KEY)

\* C28: whenever ssn_ciphertext is non-empty, ssn_hash equals
\* hash_ssn(decrypt_ssn(ssn_ciphertext)): the stored hash is the hash of the
\* identifier the stored ciphertext decrypts to.
C28_HashIndexesCiphertext ==
    (Truthy(ssn_ciphertext) /\ StoredIdentifier.kind = "ok") =>
        ssn_hash \in {h.val : h \in {r \in {hash_ssn(StoredIdentifier.val, SSN_HASH_SALT)} :
                                         r.kind = "ok"}}


---------------------------------------------------------------------------
(* Shape of the decrypt-all result *)

\* id and decrypted income of every record of applicant_encrypted, each
\* decrypted on its own
StoredIncomes ==
    [i \in 1..Len(db.applicant_encrypted) |->
        Decrypted(<<db.applicant_encrypted[i]>>, _get_fernet(SSN_ENCRYPTION_KEY).val).val[1]]

\* the places of the records whose income is above the threshold of call
AboveThreshold ==
    {i \in 1..Len(StoredIncomes) : DecimalLess(call.arg[1], Income(StoredIncomes[i]))}

\* C25: in the result of a decrypt-all query every returned record has an
\* income strictly above the threshold, the incomes are in non-increasing
\* order, the length is min(top_n, number of records above the threshold), no
\* record left out has an income above the smallest returned one, and
\* records_returned <= records_filtered <= records_scanned.
C25_TopNShape ==
    (call.op = "encrypted_top_n" /\ call.res.kind = "ok") =>
        LET top_results == call.res.val[1]
            n == Len(top_results)
            returned == {top_results[i][1] : i \in 1..n}
        IN  /\ \A i \in 1..n :
                   /\ DecimalLess(call.arg[1], Income(top_results[i]))
                   /\ \E j \in 1..Len(StoredIncomes) : StoredIncomes[j] = top_results[i]
            /\ \A i \in 1..(n - 1) :
                   ~DecimalLess(Income(top_results[i]), Income(top_results[i + 1]))
            /\ Cardinality(returned) = n
            /\ n = Min(call.arg[2], Cardinality(AboveThreshold))
            /\ n > 0 => \A j \in 1..Len(StoredIncomes) :
                   StoredIncomes[j][1] \notin returned =>
                       ~DecimalLess(Income(top_results[n]), Income(StoredIncomes[j]))
            /\ call.res.val[2] = Len(db.applicant_encrypted)
            /\ call.res.val[3] = Cardinality(AboveThreshold)
            /\ call.res.val[4] = n
            /\ call.res.val[4] <= call.res.val[3]
            /\ call.res.val[3] <= call.res.val[2]

\* a query whose threshold is the income of a record: that record is left out
\* and a higher one is returned
C25_Witness ==
    /\ call.op = "encrypted_top_n" /\ call.res.kind = "ok"
    /\ \E j \in 1..Len(StoredIncomes) : DecimalEqual(Income(StoredIncomes[j]), call.arg[1])
    /\ Len(call.res.val[1]) >= 1
    /\ call.res.val[3] < call.res.val[2]


---------------------------------------------------------------------------
(* Clearing the income *)

\* C26: assigning None to income stores the empty ciphertext, and reading the
\* income of a record with an empty ciphertext yields None; neither invokes a
\* cryptographic primitive nor fails for want of a key, whatever the key is.
C26_ClearedIncome ==
    /\ (call.op = "income.setter" /\ call.arg = None) =>
           /\ income_ciphertext = << >>
           /\ call.res = Ok(None, << >>)
    /\ (call.op = "income.getter" /\ income_ciphertext = << >>) =>
           call.res = Ok(None, << >>)

\* an income that was cleared and then read, with no usable key configured
C26_Witness ==
    /\ call.op = "income.getter"
    /\ prev.op = "income.setter" /\ prev.arg = None
    /\ SSN_ENCRYPTION_KEY \notin FernetKeys
    /\ call.res = Ok(None, << >>)


---------------------------------------------------------------------------
(* What the field accessors write *)

\* C29: the ssn setter changes only ssn_ciphertext and ssn_hash, the income
\* setter changes only income_ciphertext (it writes no hash), and the ssn
\* getter, ssn_masked and the income getter change no stored field, whether
\* they succeed or fail.
C29_FieldFrame ==
    [][/\ call'.op = "ssn.setter" =>
              income_ciphertext' = income_ciphertext /\ db' = db
       /\ call'.op = "income.setter" =>
              ssn_ciphertext' = ssn_ciphertext /\ ssn_hash' = ssn_hash /\ db' = db
       /\ call'.op \in {"ssn.getter", "ssn_masked", "income.getter"} =>
              /\ ssn_ciphertext' = ssn_ciphertext /\ ssn_hash' = ssn_hash
              /\ income_ciphertext' = income_ciphertext /\ db' = db]_vars

\* an income assigned while the person's fields were set
C29_Witness ==
    /\ call.op = "income.setter" /\ call.res.kind = "ok" /\ call.arg # None
    /\ Truthy(income_ciphertext)
    /\ Truthy(ssn_ciphertext) /\ Truthy(ssn_hash)


---------------------------------------------------------------------------
(* Batched generation *)

\* table after holds the rows of before followed by n more
Appended(before, after, n) ==
    /\ Len(after) = Len(before) + n
    /\ SubSeq(after, 1, Len(before)) = before

DistinctIds(rows) ==
    \A i, j \in 1..Len(rows) : i # j => rows[i][1] # rows[j][1]

\* what a table held when the batches began
TableBefore(table) == IF call'.arg[2].clear THEN << >> ELSE db[table]

\* a run of generate_test_data put every pre-generated ssn, in order, once into
\* each table it was asked to fill
PersonsGenerated ==
    LET ssns == call'.arg[1]
        added == IF call'.res.kind = "ok" THEN Len(ssns) ELSE 0
        encrypted == TableBefore("person_encrypted")
        baseline == TableBefore("person_baseline")
    IN  /\ IF call'.arg[2].baseline_only
           THEN db'.person_encrypted = encrypted
           ELSE /\ Appended(encrypted, db'.person_encrypted, added)
                /\ \A i \in 1..added :
                       \E row \in {db'.person_encrypted[Len(encrypted) + i]} :
                           /\ decrypt_ssn(row[2], SSN_ENCRYPTION_KEY).kind = "ok"
                           /\ decrypt_ssn(row[2], SSN_ENCRYPTION_KEY).val = ssns[i]
                           /\ hash_ssn(ssns[i], SSN_HASH_SALT).kind = "ok"
                           /\ row[3] = hash_ssn(ssns[i], SSN_HASH_SALT).val
        /\ IF call'.arg[2].encrypted_only
           THEN db'.person_baseline = baseline
           ELSE /\ Appended(baseline, db'.person_baseline, added)
                /\ \A i \in 1..added :
                       db'.person_baseline[Len(baseline) + i][2] = ssns[i]
        /\ DistinctIds(db'.person_encrypted)
        /\ DistinctIds(db'.person_baseline)

\* a run of generate_applicant_data put every pre-generated income, in order,
\* once into each table it was asked to fill
ApplicantsGenerated ==
    LET incomes == call'.arg[1]
        added == IF call'.res.kind = "ok" THEN Len(incomes) ELSE 0
        encrypted == TableBefore("applicant_encrypted")
        baseline == TableBefore("applicant_baseline")
    IN  /\ IF call'.arg[2].baseline_only
           THEN db'.applicant_encrypted = encrypted
           ELSE /\ Appended(encrypted, db'.applicant_encrypted, added)
                /\ \A i \in 1..added :
                       \E read \in {income_getter(db'.applicant_encrypted[Len(encrypted) + i][2],
                                                  SSN_ENCRYPTION_KEY)} :
                           /\ read.kind = "ok"
                           /\ read.val # None
                           /\ DecimalEqual(read.val, incomes[i])
        /\ IF call'.arg[2].encrypted_only
           THEN db'.applicant_baseline = baseline
           ELSE /\ Appended(baseline, db'.applicant_baseline, added)
                /\ \A i \in 1..added :
                       DecimalEqual(Income(db'.applicant_baseline[Len(baseline) + i]),
                                    incomes[i])
        /\ DistinctIds(db'.applicant_encrypted)
        /\ DistinctIds(db'.applicant_baseline)

\* C27: for every count >= 0 and batch size >= 1 a generation run that
\* completes appends each pre-generated identifier (income) exactly once, in
\* the order of the list, to the encrypted table and to the plain table, so
\* that the rows added to the two tables mirror each other; a run that fails
\* adds nothing to either.
C27_GenerationLossless ==
    [][/\ call'.op = "generate_test_data" => PersonsGenerated
       /\ call'.op = "generate_applicant_data" => ApplicantsGenerated]_vars

\* three identifiers generated in batches of two into both tables
C27_Witness ==
    /\ call.op = "generate_test_data" /\ call.res.kind = "ok"
    /\ Len(call.arg[1]) = 3
    /\ call.arg[2].batch_size = 2
    /\ ~call.arg[2].encrypted_only /\ ~call.arg[2].baseline_only
    /\ Len(db.person_encrypted) = 3 /\ Len(db.person_baseline) = 3


---------------------------------------------------------------------------
(* Concurrent codec calls *)

\* what the call of thread t gives when nothing else runs, with the IV it drew
Alone(t) ==
    CASE threads[t].op = "normalize_ssn" -> normalize_ssn(threads[t].arg)
      [] threads[t].op = "mask_ssn" -> mask_ssn(threads[t].arg)
      [] threads[t].op = "hash_ssn" -> hash_ssn(threads[t].arg, SSN_HASH_SALT)
      [] threads[t].op = "decrypt_ssn" -> decrypt_ssn(threads[t].arg, SSN_ENCRYPTION_KEY)
      [] threads[t].op = "encrypt_ssn" ->
             encrypt_ssn(threads[t].arg, SSN_ENCRYPTION_KEY, threads[t].iv)

\* C24: in every interleaving of normalize, encrypt, decrypt, hash and mask
\* calls from several threads, each call returns the result or error it
\* returns when run alone, and no two calls encrypt with the same IV.
C24_ConcurrentAsAlone ==
    /\ \A t \in 1..MaxThreads :
           threads[t].pc = "returned" => threads[t].res = Alone(t)
    /\ \A t, u \in 1..MaxThreads :
           (t # u /\ threads[t].iv > 0) => threads[t].iv # threads[u].iv

\* an encrypt_ssn that returned its token while another thread, which drew its
\* IV first, was still inside encrypt_ssn
C24_Witness ==
    /\ threads[1].pc = "returned" /\ threads[1].op = "encrypt_ssn"
    /\ threads[1].res.kind = "ok" /\ threads[1].iv = 2
    /\ threads[2].pc = "drew"

===========================================================================
